---------------------------- MODULE Spec2Model ----------------------------
(***************************************************************************)
(* Exchange-rate extraction engine of the money repository.                *)
(*                                                                         *)
(*   Spec        BCBAutomation.extract_all_exchange_rates (the Selenium    *)
(*               orchestrator of utils/selenium_utils.py) followed by the  *)
(*               cleanup of its Dagster caller in assets.py.               *)
(*   SpecSpider  MoedasSpider.parse with _get_exchange_rate_hybrid and     *)
(*               _get_rate_via_api (spiders/moedas_spider.py).             *)
(*   SpecParser  the parsers applied to the text of one page:              *)
(*               BCBAutomation._extract_result with the status rule of     *)
(*               get_exchange_rate, MoedasSpider._extract_result_advanced  *)
(*               and the marker read of _strategy_javascript_injection.    *)
(*   SpecTwice   two calls of extract_all_exchange_rates on one            *)
(*               BCBAutomation object, the page answering every call alike.*)
(*   SpecSteps   one step applied to one input: _select_currency,          *)
(*               _close_banners, _close_cookie_banner, the form flow of    *)
(*               get_exchange_rate, write_exchange_rates,                  *)
(*               read_currency_pairs, the recovery of run(),               *)
(*               _load_currency_pairs, _get_rate_via_api, one strategy of  *)
(*               the spider on a used session and _extract_result.         *)
(*   SpecLive    Spec without interruption, under weak fairness.           *)
(*   SpecOrchestrators  a run of either orchestrator.                      *)
(*   SpecScrapy  the callbacks of the form-request spider                  *)
(*               (scrapy/moedas_spider.py) as its responses arrive.        *)
(*                                                                         *)
(* Text is a sequence of one-character strings, so that Python's           *)
(* substring test (`needle in text`) is computed, not assumed.  A float    *)
(* rate is an integer number of thousandths (5123 is 5.123); a date is its *)
(* day ordinal (date.toordinal()), so that 10 is 0001-01-10.               *)
(***************************************************************************)
EXTENDS Integers, Sequences, FiniteSets, TLC

VARIABLES
    \* ---- BCBAutomation (utils/selenium_utils.py) ----
    currency_pairs,   \* argument of extract_all_exchange_rates
    rate_date,        \* requested date (argument, date.today() by default)
    pc,               \* position of the orchestrator run
    idx,              \* number of pairs the for loop has consumed
    results,          \* local list `results`
    success_count,    \* local counter
    warning_count,    \* local counter
    error_count,      \* local counter
    driver,           \* self.driver: None or a held webdriver object
    outcome,          \* how extract_all_exchange_rates ended
    close_calls,      \* history: calls of close_driver made by the run
    quit_calls,       \* history: calls of driver.quit
    quit_failures,    \* history: calls of driver.quit that raised
    setup_calls,      \* history: calls of setup_driver
    sessions,         \* history: webdriver objects assigned to self.driver
    hist,             \* history: per pair, what get_exchange_rate went through
    \* ---- MoedasSpider (spiders/moedas_spider.py) ----
    sp_pc,            \* position of the spider: parse, saved, closed
    sp_pairs,         \* self.currency_pairs
    sp_idx,           \* number of pairs parse has consumed
    sp_results,       \* self.results
    sp_driver,        \* self.driver
    sp_stats,         \* counts reported by _save_results
    sp_calls,         \* history: the strategy calls made for the last pair
    sp_quit_calls,    \* history: calls of driver.quit
    sp_live,          \* history: browsers started and not quit
    \* ---- the parsers applied to one page (SpecParser) ----
    pr_pc,            \* "page", then the parser that read it
    pr_page,          \* what the page holds
    pr_requested,     \* requested date
    pr_out,           \* what the parser handed back
    \* ---- one step of a run applied to one input (SpecSteps) ----
    st_pc,            \* "input", then the step that was applied
    st_in,            \* what the step meets: page elements, files
    st_out,           \* what the step handed back
    \* ---- two runs of one BCBAutomation object (SpecTwice) ----
    fixed_page,       \* what _extract_result reads from the fixed page
    returned,         \* result lists returned by the runs that ended
    \* ---- form-request spider (scrapy/moedas_spider.py) ----
    sc_pc,               \* "idle", "new" after __init__, then "crawling"
    sc_currency_pairs,   \* self.currency_pairs
    current_pair_index,  \* self.current_pair_index
    sc_scheduled,        \* requests the engine holds, awaiting a response
    sc_requests,         \* every request the spider issued, in order
    sc_items             \* results yielded by parse_result

bcbVars ==
    <<currency_pairs, rate_date, pc, idx, results, success_count,
      warning_count, error_count, driver, outcome, close_calls, quit_calls,
      quit_failures, setup_calls, sessions, hist>>

spVars ==
    <<sp_pc, sp_pairs, sp_idx, sp_results, sp_driver, sp_stats, sp_calls,
      sp_quit_calls, sp_live>>

prVars ==
    <<pr_pc, pr_page, pr_requested, pr_out>>

stVars ==
    <<st_pc, st_in, st_out>>

twVars ==
    <<fixed_page, returned>>

scVars ==
    <<sc_pc, sc_currency_pairs, current_pair_index, sc_scheduled, sc_requests,
      sc_items>>

vars ==
    <<bcbVars, spVars, prVars, stVars, twVars, scVars>>

-----------------------------------------------------------------------------
(* Bounds of the model *)

\* longest pair list handed to an orchestrator
MaxPairs ==
    2

-----------------------------------------------------------------------------
(* Text *)

\* Python: needle in text
Contains(text, needle) ==
    \E i \in 0..(Len(text) - Len(needle)) :
        SubSeq(text, i + 1, i + Len(needle)) = needle

\* "Consulta ok"
STATUS_OK ==
    <<"C","o","n","s","u","l","t","a"," ","o","k">>

\* "Cotação encontrada não é da data solicitada"
STATUS_DATE_MISMATCH ==
    <<"C","o","t","a","ç","ã","o"," ","e","n","c","o","n","t","r","a","d","a",
      " ","n","ã","o"," ","é"," ","d","a"," ","d","a","t","a"," ","s","o","l",
      "i","c","i","t","a","d","a">>

\* "Valor não encontrado"
STATUS_NOT_FOUND ==
    <<"V","a","l","o","r"," ","n","ã","o"," ","e","n","c","o","n","t","r","a",
      "d","o">>

\* "Erro: "
ERRO_PREFIX ==
    <<"E","r","r","o",":"," ">>

\* "não é da data"
NAO_E_DA_DATA ==
    <<"n","ã","o"," ","é"," ","d","a"," ","d","a","t","a">>

\* "Erro"
ERRO ==
    <<"E","r","r","o">>

\* str(e) of a TimeoutException of driver.get / WebDriverWait.until
MSG_TIMEOUT ==
    <<"t","i","m","e","o","u","t">>

\* str(e) of the ValueError of _select_currency: "Erro ao selecionar moeda"
MSG_SELECT ==
    <<"E","r","r","o"," ","a","o"," ","s","e","l","e","c","i","o","n","a","r",
      " ","m","o","e","d","a">>

\* str(e) of the exception webdriver.Chrome raises: "session not created"
MSG_SESSION ==
    <<"s","e","s","s","i","o","n"," ","n","o","t"," ","c","r","e","a","t","e",
      "d">>

\* str(e) of an Exception raised outside the try of get_exchange_rate
MSG_MEMORY ==
    <<"M","e","m","o","r","y","E","r","r","o","r">>

\* no exception
NoError ==
    <<>>

-----------------------------------------------------------------------------
(* Values *)

\* CurrencyPair(from_currency, to_currency)
CurrencyPair(f, t) ==
    [from_currency |-> f, to_currency |-> t]

CurrencyPairs ==
    {CurrencyPair("USD", "BRL"), CurrencyPair("EUR", "BRL"),
     CurrencyPair("BRL", "USD")}

\* pair lists of length 0..MaxPairs
PairLists ==
    UNION {[1..n -> CurrencyPairs] : n \in 0..MaxPairs}

\* date.today(), as a day ordinal
Today ==
    10

\* dates a caller asks for
RequestedDates ==
    {Today, Today - 1}

\* re.search(...) returned None
NoMatch ==
    -1

\* self.driver
NoDriver ==
    "None"

Held ==
    "held"

\* ExchangeRate(from_currency, to_currency, rate_value, rate_date, status)
ExchangeRate(pair, rate_value, date, status) ==
    [from_currency |-> pair.from_currency,
     to_currency   |-> pair.to_currency,
     rate_value    |-> rate_value,
     rate_date     |-> date,
     status        |-> status]

-----------------------------------------------------------------------------
(* BCBAutomation._extract_result *)

\* result_selectors of _extract_result
NumResultSelectors ==
    4

\* date_selectors of _extract_result
NumDateSelectors ==
    2

\* What the page gives to each read of _extract_result:
\*   readable  the card-body text or driver.page_source could be read
\*   conv      float of the 'Resultado da conversão' match (NoMatch: no
\*             match, or float() raised ValueError)
\*   tax       float of the '1 X = n' match
\*   dateUsed  date of the 'Data cotação utilizada' match
\*   selRates  per generic result selector, the first number one of its
\*             elements yields
\*   selDates  per generic date selector, the first date one of its elements
\*             yields
Pages ==
    [readable : BOOLEAN,
     conv     : {NoMatch, 0, 5123},
     tax      : {NoMatch, 5200},
     dateUsed : {NoMatch, Today, Today - 1},
     selRates : [1..NumResultSelectors -> {NoMatch, 5123, 5200}],
     selDates : [1..NumDateSelectors -> {NoMatch, Today - 1, Today + 1}]]

\* for selector in selectors: ... value = match; break (the break leaves the
\* element loop only, so a later selector's match overwrites an earlier one)
RECURSIVE ScanSelectors(_, _, _)
ScanSelectors(found, i, cur) ==
    IF i > Len(found)
    THEN cur
    ELSE ScanSelectors(found, i + 1,
                       IF found[i] # NoMatch THEN found[i] ELSE cur)

\* _extract_result() -> (rate_value, actual_date)
ExtractResult(page) ==
    IF ~page.readable
    THEN <<0, Today>>
    ELSE LET r1 == IF page.conv # NoMatch THEN page.conv ELSE 0
             r2 == IF r1 = 0 /\ page.tax # NoMatch THEN page.tax ELSE r1
             d1 == IF page.dateUsed # NoMatch THEN page.dateUsed ELSE Today
             r3 == IF r2 = 0 THEN ScanSelectors(page.selRates, 1, r2) ELSE r2
             d2 == IF d1 = Today
                   THEN ScanSelectors(page.selDates, 1, d1)
                   ELSE d1
         IN  <<r3, d2>>

\* every (rate_value, actual_date) _extract_result can hand back
ExtractOutcomes ==
    {ExtractResult(page) : page \in Pages}

-----------------------------------------------------------------------------
(* BCBAutomation.setup_driver / close_driver *)

\* setup_driver: "ok"; "fail_early" webdriver.Chrome raises, self.driver
\* stays None; "fail_late" set_page_load_timeout or maximize_window raises
\* after self.driver was assigned
SetupOutcomes ==
    {"ok", "fail_early", "fail_late"}

\* self.driver after setup_driver
SetupDriver(setup) ==
    IF setup = "fail_early" THEN NoDriver ELSE Held

\* close_driver() that forgets the browser without quitting it
CloseDriver_NeverQuits(drv, quit_ok) ==
    [driver |-> NoDriver, quits |-> 0, failed |-> FALSE, raised |-> FALSE]

\* close_driver() without its try/except: an exception of quit leaves it
CloseDriver_Propagates(drv, quit_ok) ==
    [driver |-> IF drv # NoDriver /\ quit_ok THEN NoDriver ELSE drv,
     quits  |-> IF drv # NoDriver THEN 1 ELSE 0,
     failed |-> drv # NoDriver /\ ~quit_ok,
     raised |-> drv # NoDriver /\ ~quit_ok]

\* close_driver(): quit is called only on a held driver; self.driver is reset
\* only when quit returned; an exception of quit is logged, never raised
\*   driver  self.driver afterwards
\*   quits   calls of driver.quit
\*   failed  driver.quit raised
\*   raised  an exception left close_driver
CloseDriver(drv, quit_ok) ==
    [driver |-> IF drv # NoDriver /\ quit_ok THEN NoDriver ELSE drv,
     quits  |-> IF drv # NoDriver THEN 1 ELSE 0,
     failed |-> drv # NoDriver /\ ~quit_ok,
     raised |-> FALSE]

-----------------------------------------------------------------------------
(* BCBAutomation.get_exchange_rate *)

\* messages of the exceptions a step of the form flow raises into the except
\* clause of get_exchange_rate (driver.get, wait.until, _select_currency)
StepErrors ==
    {MSG_TIMEOUT, MSG_SELECT}

\* status that compares the extracted date with date.today() instead of the
\* requested date
StatusOf_ComparesToday(rate_value, actual_date, requested) ==
    IF rate_value > 0
    THEN IF actual_date # Today
         THEN STATUS_DATE_MISMATCH
         ELSE STATUS_OK
    ELSE STATUS_NOT_FOUND

\* status of the normal return
StatusOf(rate_value, actual_date, requested) ==
    IF rate_value > 0
    THEN IF actual_date # requested
         THEN STATUS_DATE_MISMATCH
         ELSE STATUS_OK
    ELSE STATUS_NOT_FOUND

\* error record dated date.today() instead of the requested date
ErrorRecord_Today(pair, requested, msg) ==
    ExchangeRate(pair, 0, Today, ERRO_PREFIX \o msg)

\* the record of the except clauses (get_exchange_rate and
\* extract_all_exchange_rates build the same one)
ErrorRecord(pair, requested, msg) ==
    ExchangeRate(pair, 0, requested, ERRO_PREFIX \o msg)

\* What one call meets:
\*   setup      outcome of setup_driver, used when no driver is held
\*   step       NoError, or the message of the exception a step raises
\*   extracted  what _extract_result returns
\*   escape     "no"; "before_try": an Exception is raised before the try
\*              block; "in_handler": an Exception is raised inside the except
\*              clause, so it leaves get_exchange_rate
CallEnvs ==
    [setup     : SetupOutcomes,
     step      : StepErrors \cup {NoError},
     extracted : ExtractOutcomes,
     escape    : {"no", "before_try", "in_handler"}]

\* the exception, if any, that reaches the except clause of get_exchange_rate
RaisedInTry(drv, e) ==
    IF drv = NoDriver /\ e.setup # "ok"
    THEN MSG_SESSION
    ELSE e.step

\* get_exchange_rate(currency_pair, rate_date):
\*   raised     NoError if it returned, else the message of the exception
\*              that left it
\*   rate       the record returned
\*   handled    NoError, or the message of the exception its except clause
\*              caught
\*   cause      "none", "setup" or "step": what raised into the except clause
\*   driver     self.driver afterwards
\*   setups     calls of setup_driver
\*   created    webdriver objects assigned to self.driver
\*   extracted  what _extract_result returned, if it was reached
GetExchangeRate(pair, requested, drv, e) ==
    IF e.escape = "before_try"
    THEN [raised |-> MSG_MEMORY, rate |-> ErrorRecord(pair, requested, NoError),
          handled |-> NoError, cause |-> "none", driver |-> drv,
          setups |-> 0, created |-> 0, extracted |-> <<NoMatch, NoMatch>>]
    ELSE LET exc    == RaisedInTry(drv, e)
             drv2   == IF drv = NoDriver THEN SetupDriver(e.setup) ELSE drv
             setups == IF drv = NoDriver THEN 1 ELSE 0
             made   == IF drv = NoDriver /\ drv2 # NoDriver THEN 1 ELSE 0
             cause  == IF exc = NoError THEN "none"
                       ELSE IF drv = NoDriver /\ e.setup # "ok" THEN "setup"
                       ELSE "step"
         IN  IF exc = NoError
             THEN [raised |-> NoError,
                   rate   |-> ExchangeRate(pair, e.extracted[1], e.extracted[2],
                                  StatusOf(e.extracted[1], e.extracted[2],
                                           requested)),
                   handled |-> NoError, cause |-> cause, driver |-> drv2,
                   setups |-> setups, created |-> made,
                   extracted |-> e.extracted]
             ELSE [raised |-> IF e.escape = "in_handler"
                              THEN MSG_MEMORY ELSE NoError,
                   rate   |-> ErrorRecord(pair, requested, exc),
                   handled |-> exc, cause |-> cause, driver |-> drv2,
                   setups |-> setups, created |-> made,
                   extracted |-> <<NoMatch, NoMatch>>]

-----------------------------------------------------------------------------
(* The page text handed to the parsers, and what they hand back *)

\* no match, or an attribute that is not set
NoText ==
    <<>>

\* a page of which nothing is read
BlankPage ==
    [readable |-> TRUE, wait |-> "ok", conv |-> NoText, tax |-> NoText,
     dateUsed |-> NoText, rates |-> <<<<>>, <<>>>>,
     dates |-> <<<<>>, <<>>, <<>>>>, attr |-> NoText]

\* what a parser handed back: raised tells whether an exception left it
Output(raised, rate_value, actual_date, status) ==
    [raised |-> raised, rate |-> rate_value, date |-> actual_date,
     status |-> status]

\* no parser has been applied
NoOutput ==
    Output(FALSE, 0, 0, <<>>)

\* the parsers are idle while an orchestrator runs
ParserIdle ==
    /\ pr_pc = "idle"
    /\ pr_page = BlankPage
    /\ pr_requested = Today
    /\ pr_out = NoOutput

\* no step is applied while an orchestrator or a parser runs
StepsIdle ==
    /\ st_pc = "idle"
    /\ st_in = <<>>
    /\ st_out = <<>>

\* a single run: no fixed page, no earlier run
TwiceIdle ==
    /\ fixed_page = <<NoMatch, NoMatch>>
    /\ returned = <<>>

\* the form-request spider was not created
ScrapyIdle ==
    /\ sc_pc = "idle"
    /\ sc_currency_pairs = <<>>
    /\ current_pair_index = 0
    /\ sc_scheduled = <<>>
    /\ sc_requests = <<>>
    /\ sc_items = 0

-----------------------------------------------------------------------------
(* BCBAutomation.extract_all_exchange_rates *)

\* the spider is idle while the Selenium orchestrator runs
SpiderIdle ==
    /\ sp_pc = "idle"
    /\ sp_pairs = <<>>
    /\ sp_idx = 0
    /\ sp_results = <<>>
    /\ sp_driver = NoDriver
    /\ sp_stats = <<0, 0, 0>>
    /\ sp_calls = <<>>
    /\ sp_quit_calls = 0
    /\ sp_live = 0

\* BCBAutomation() followed by the entry of extract_all_exchange_rates
Init ==
    /\ currency_pairs \in PairLists
    /\ rate_date \in RequestedDates
    /\ pc = "loop"
    /\ idx = 0
    /\ results = <<>>
    /\ success_count = 0
    /\ warning_count = 0
    /\ error_count = 0
    /\ driver = NoDriver
    /\ outcome = "running"
    /\ close_calls = 0
    /\ quit_calls = 0
    /\ quit_failures = 0
    /\ setup_calls = 0
    /\ sessions = 0
    /\ hist = <<>>
    /\ SpiderIdle
    /\ ParserIdle
    /\ StepsIdle
    /\ TwiceIdle
    /\ ScrapyIdle

\* counters of which a stale quote increments both the warnings and the
\* successes
CountRecord_CountsStaleTwice(rate, counts) ==
    IF rate.rate_value > 0
    THEN IF Contains(rate.status, NAO_E_DA_DATA)
         THEN <<counts[1] + 1, counts[2] + 1, counts[3]>>
         ELSE <<counts[1] + 1, counts[2], counts[3]>>
    ELSE <<counts[1], counts[2], counts[3] + 1>>

\* the counters after a record was appended: <<success, warning, error>>
CountRecord(rate, counts) ==
    IF rate.rate_value > 0
    THEN IF Contains(rate.status, NAO_E_DA_DATA)
         THEN <<counts[1], counts[2] + 1, counts[3]>>
         ELSE <<counts[1] + 1, counts[2], counts[3]>>
    ELSE <<counts[1], counts[2], counts[3] + 1>>

\* loop body whose `except Exception` clause counts the error but appends no
\* record
LoopBody_DropsFailedPair(e) ==
    LET pair   == currency_pairs[idx + 1]
        call   == GetExchangeRate(pair, rate_date, driver, e)
        counts == <<success_count, warning_count, error_count>>
        after  == IF call.raised = NoError
                  THEN CountRecord(call.rate, counts)
                  ELSE <<counts[1], counts[2], counts[3] + 1>>
    IN  /\ results' = IF call.raised = NoError
                      THEN Append(results, call.rate)
                      ELSE results
        /\ success_count' = after[1]
        /\ warning_count' = after[2]
        /\ error_count' = after[3]
        /\ driver' = call.driver
        /\ setup_calls' = setup_calls + call.setups
        /\ sessions' = sessions + call.created
        /\ hist' = Append(hist, [cause     |-> call.cause,
                                 escaped   |-> call.raised # NoError,
                                 error     |-> IF call.raised # NoError
                                               THEN call.raised
                                               ELSE call.handled,
                                 extracted |-> call.extracted])
        /\ idx' = idx + 1

\* loop body that starts the run again from the first pair when a pair ended
\* with an exception
LoopBody_StartsOver(e) ==
    LET pair   == currency_pairs[idx + 1]
        call   == GetExchangeRate(pair, rate_date, driver, e)
        counts == <<success_count, warning_count, error_count>>
        again  == call.raised # NoError
        after  == IF again THEN <<0, 0, 0>>
                  ELSE CountRecord(call.rate, counts)
    IN  /\ results' = IF again THEN <<>> ELSE Append(results, call.rate)
        /\ success_count' = after[1]
        /\ warning_count' = after[2]
        /\ error_count' = after[3]
        /\ driver' = IF again THEN NoDriver ELSE call.driver
        /\ setup_calls' = IF again THEN 0 ELSE setup_calls + call.setups
        /\ sessions' = IF again THEN 0 ELSE sessions + call.created
        /\ hist' = IF again THEN <<>>
                   ELSE Append(hist, [cause     |-> call.cause,
                                      escaped   |-> FALSE,
                                      error     |-> call.handled,
                                      extracted |-> call.extracted])
        /\ idx' = IF again THEN 0 ELSE idx + 1

\* one iteration of `for currency_pair in currency_pairs` in environment e
LoopBody(e) ==
    LET pair   == currency_pairs[idx + 1]
        call   == GetExchangeRate(pair, rate_date, driver, e)
        counts == <<success_count, warning_count, error_count>>
        rec    == IF call.raised = NoError
                  THEN call.rate
                  ELSE ErrorRecord(pair, rate_date, call.raised)
        after  == IF call.raised = NoError
                  THEN CountRecord(rec, counts)
                  ELSE <<counts[1], counts[2], counts[3] + 1>>
    IN  /\ results' = Append(results, rec)
        /\ success_count' = after[1]
        /\ warning_count' = after[2]
        /\ error_count' = after[3]
        /\ driver' = call.driver
        /\ setup_calls' = setup_calls + call.setups
        /\ sessions' = sessions + call.created
        /\ hist' = Append(hist, [cause     |-> call.cause,
                                 escaped   |-> call.raised # NoError,
                                 error     |-> IF call.raised # NoError
                                               THEN call.raised
                                               ELSE call.handled,
                                 extracted |-> call.extracted])
        /\ idx' = idx + 1

\* the for loop takes the next pair
NextPair ==
    /\ pc = "loop"
    /\ idx < Len(currency_pairs)
    /\ \E e \in CallEnvs : LoopBody(e)
    /\ UNCHANGED <<currency_pairs, rate_date, pc, outcome, close_calls,
                   quit_calls, quit_failures, spVars, prVars, stVars, twVars, scVars>>

\* the finally clause: close_driver() on the driver drv; `ending` is how the
\* try block ended, and an exception leaving close_driver would take its place
Finally(drv, quit_ok, ending) ==
    LET closed == CloseDriver(drv, quit_ok)
    IN  /\ driver' = closed.driver
        /\ quit_calls' = quit_calls + closed.quits
        /\ quit_failures' = quit_failures + (IF closed.failed THEN 1 ELSE 0)
        /\ close_calls' = close_calls + 1
        /\ outcome' = IF closed.raised THEN "cleanup_raised" ELSE ending

\* the loop is exhausted: `return results`, then the finally clause
ReturnResults ==
    /\ pc = "loop"
    /\ idx = Len(currency_pairs)
    /\ \E quit_ok \in BOOLEAN : Finally(driver, quit_ok, "returned")
    /\ pc' = "done"
    /\ UNCHANGED <<currency_pairs, rate_date, idx, results, success_count,
                   warning_count, error_count, setup_calls, sessions, hist,
                   spVars, prVars, stVars, twVars, scVars>>

\* a BaseException that `except Exception` does not catch (KeyboardInterrupt,
\* SystemExit) leaves the loop while a pair is processed or during the sleep
\* between pairs; the finally clause runs and the exception propagates.
\* `started`: the interrupted call had set up the driver.
Interrupted ==
    /\ pc = "loop"
    /\ idx < Len(currency_pairs)
    /\ \E started \in BOOLEAN, quit_ok \in BOOLEAN :
          LET drv == IF driver = NoDriver /\ started THEN Held ELSE driver
          IN  /\ Finally(drv, quit_ok, "raised")
              /\ setup_calls' = setup_calls
                                  + (IF driver = NoDriver /\ started
                                     THEN 1 ELSE 0)
              /\ sessions' = sessions
                               + (IF driver = NoDriver /\ started
                                  THEN 1 ELSE 0)
    /\ pc' = "done"
    /\ UNCHANGED <<currency_pairs, rate_date, idx, results, success_count,
                   warning_count, error_count, hist, spVars, prVars, stVars, twVars, scVars>>

\* assets.extract_exchange_rates, finally clause:
\*   if hasattr(automation, 'driver') and automation.driver:
\*       automation.close_driver()
AssetFinally ==
    /\ pc = "done"
    /\ \E quit_ok \in BOOLEAN :
          IF driver # NoDriver
          THEN Finally(driver, quit_ok, outcome)
          ELSE UNCHANGED <<driver, quit_calls, quit_failures, close_calls,
                           outcome>>
    /\ pc' = "asset_done"
    /\ UNCHANGED <<currency_pairs, rate_date, idx, results, success_count,
                   warning_count, error_count, setup_calls, sessions, hist,
                   spVars, prVars, stVars, twVars, scVars>>

Next ==
    \/ NextPair
    \/ ReturnResults
    \/ Interrupted
    \/ AssetFinally

Spec ==
    Init /\ [][Next]_vars

-----------------------------------------------------------------------------
(* assets.analyze_exchange_rates *)

\* the stats of analyze_exchange_rates over the Status column of the table
\* made of the records `rates` (an empty table gives no stats)
AnalyzeExchangeRates(rates) ==
    LET Count(Test(_)) ==
            Cardinality({i \in 1..Len(rates) : Test(rates[i].status)})
    IN  [total_cotacoes |-> Len(rates),
         cotacoes_ok    |-> Count(LAMBDA st : st = STATUS_OK),
         cotacoes_data_diferente |->
             Count(LAMBDA st : Contains(st, NAO_E_DA_DATA)),
         cotacoes_erro  |-> Count(LAMBDA st : Contains(st, ERRO))]

-----------------------------------------------------------------------------
(* Termination of extract_all_exchange_rates *)

\* the run when nothing interrupts it: every browser call of
\* get_exchange_rate returns or raises within its timeout, so the loop body
\* for the next pair ends, and then the finally clause
NextLive ==
    \/ NextPair
    \/ ReturnResults

\* the interpreter runs the loop and the finally clause as long as they have
\* a step to take
SpecLive ==
    Init /\ [][NextLive]_vars /\ WF_vars(NextLive)

-----------------------------------------------------------------------------
(* Two runs of extract_all_exchange_rates on one BCBAutomation object *)

\* the page answers every call of both runs with the same text: the browser
\* starts, every step of the form flow succeeds and _extract_result reads
\* `fixed_page`
FixedEnvs ==
    {e \in CallEnvs : /\ e.setup = "ok"
                      /\ e.step = NoError
                      /\ e.extracted = fixed_page
                      /\ e.escape = "no"}

\* BCBAutomation(), a fixed page, and the entry of the first run
InitTwice ==
    /\ currency_pairs \in PairLists
    /\ rate_date \in RequestedDates
    /\ fixed_page \in ExtractOutcomes
    /\ returned = <<>>
    /\ pc = "loop"
    /\ idx = 0
    /\ results = <<>>
    /\ success_count = 0
    /\ warning_count = 0
    /\ error_count = 0
    /\ driver = NoDriver
    /\ outcome = "running"
    /\ close_calls = 0
    /\ quit_calls = 0
    /\ quit_failures = 0
    /\ setup_calls = 0
    /\ sessions = 0
    /\ hist = <<>>
    /\ SpiderIdle
    /\ ParserIdle
    /\ StepsIdle
    /\ ScrapyIdle

\* the for loop takes the next pair and meets the fixed page
FixedNextPair ==
    /\ pc = "loop"
    /\ idx < Len(currency_pairs)
    /\ \E e \in FixedEnvs : LoopBody(e)
    /\ UNCHANGED <<currency_pairs, rate_date, pc, outcome, close_calls,
                   quit_calls, quit_failures, spVars, prVars, stVars, twVars, scVars>>

\* second call whose list `results` is the one the first call filled
RunAgain_KeepsResults ==
    /\ pc = "done"
    /\ outcome = "returned"
    /\ Len(returned) = 0
    /\ returned' = Append(returned, results)
    /\ pc' = "loop"
    /\ idx' = 0
    /\ results' = results
    /\ success_count' = 0
    /\ warning_count' = 0
    /\ error_count' = 0
    /\ outcome' = "running"
    /\ UNCHANGED <<currency_pairs, rate_date, driver, close_calls, quit_calls,
                   quit_failures, setup_calls, sessions, hist, fixed_page,
                   spVars, prVars, stVars, scVars>>

\* the caller keeps the list the first call returned and calls
\* extract_all_exchange_rates again with the same arguments: the locals
\* start afresh (results = [], the counters 0), self.driver is what the
\* finally clause of the first call left
RunAgain ==
    /\ pc = "done"
    /\ outcome = "returned"
    /\ Len(returned) = 0
    /\ returned' = Append(returned, results)
    /\ pc' = "loop"
    /\ idx' = 0
    /\ results' = <<>>
    /\ success_count' = 0
    /\ warning_count' = 0
    /\ error_count' = 0
    /\ outcome' = "running"
    /\ UNCHANGED <<currency_pairs, rate_date, driver, close_calls, quit_calls,
                   quit_failures, setup_calls, sessions, hist, fixed_page,
                   spVars, prVars, stVars, scVars>>

NextTwice ==
    \/ FixedNextPair
    \/ ReturnResults
    \/ RunAgain

SpecTwice ==
    InitTwice /\ [][NextTwice]_vars

-----------------------------------------------------------------------------
(* MoedasSpider: texts *)

\* "Sucesso"
SUCESSO ==
    <<"S","u","c","e","s","s","o">>

\* "Sucesso com data diferente"
SUCESSO_DATA_DIFERENTE ==
    <<"S","u","c","e","s","s","o"," ","c","o","m"," ","d","a","t","a"," ","d",
      "i","f","e","r","e","n","t","e">>

\* "Sucesso via JavaScript"
SUCESSO_JS ==
    <<"S","u","c","e","s","s","o"," ","v","i","a"," ","J","a","v","a","S","c",
      "r","i","p","t">>

\* "Sucesso via API BCB"
SUCESSO_API ==
    <<"S","u","c","e","s","s","o"," ","v","i","a"," ","A","P","I"," ","B","C",
      "B">>

\* "API não disponível para este par"
API_INDISPONIVEL ==
    <<"A","P","I"," ","n","ã","o"," ","d","i","s","p","o","n","í","v","e","l",
      " ","p","a","r","a"," ","e","s","t","e"," ","p","a","r">>

\* "Erro na API: "
ERRO_API_PREFIX ==
    <<"E","r","r","o"," ","n","a"," ","A","P","I",":"," ">>

\* "Erro: Todas as estratégias falharam"
ERRO_TODAS ==
    <<"E","r","r","o",":"," ","T","o","d","a","s"," ","a","s"," ","e","s","t",
      "r","a","t","é","g","i","a","s"," ","f","a","l","h","a","r","a","m">>

\* "Erro: Timeout na extração"
ERRO_TIMEOUT_EXTRACAO ==
    <<"E","r","r","o",":"," ","T","i","m","e","o","u","t"," ","n","a"," ","e",
      "x","t","r","a","ç","ã","o">>

\* "Erro na extração: "
ERRO_EXTRACAO_PREFIX ==
    <<"E","r","r","o"," ","n","a"," ","e","x","t","r","a","ç","ã","o",":",
      " ">>

\* "Strategy 1 failed: "
STRATEGY_1_FAILED ==
    <<"S","t","r","a","t","e","g","y"," ","1"," ","f","a","i","l","e","d",":",
      " ">>

\* "Strategy 2 failed: "
STRATEGY_2_FAILED ==
    <<"S","t","r","a","t","e","g","y"," ","2"," ","f","a","i","l","e","d",":",
      " ">>

\* "Strategy 3 failed: "
STRATEGY_3_FAILED ==
    <<"S","t","r","a","t","e","g","y"," ","3"," ","f","a","i","l","e","d",":",
      " ">>

\* "Formulário Web"
NAME_FORM ==
    <<"F","o","r","m","u","l","á","r","i","o"," ","W","e","b">>

\* "Navegação Direta"
NAME_DIRECT ==
    <<"N","a","v","e","g","a","ç","ã","o"," ","D","i","r","e","t","a">>

\* "JavaScript Injection"
NAME_JS ==
    <<"J","a","v","a","S","c","r","i","p","t"," ","I","n","j","e","c","t","i",
      "o","n">>

\* "sucesso"
SUCESSO_LOWER ==
    <<"s","u","c","e","s","s","o">>

\* "erro"
ERRO_LOWER ==
    <<"e","r","r","o">>

\* "connection refused"
MSG_CONNECTION ==
    <<"c","o","n","n","e","c","t","i","o","n"," ","r","e","f","u","s","e",
      "d">>

-----------------------------------------------------------------------------
(* MoedasSpider._extract_result_advanced *)

\* self.target_date = date.today()
TargetDate ==
    Today

\* What the browser gives to one strategy call:
\*   nav    NoError, or the message of the exception driver.get or
\*          execute_script raises
\*   wait   outcome of WebDriverWait(...).until in _extract_result_advanced:
\*          "ok", "timeout" (TimeoutException) or "error" (another exception)
\*   rate   value the pattern walk accepts, 0 if none
\*   date   date the date walk accepts, NoMatch if none
AdvPages ==
    [nav : {MSG_TIMEOUT}, wait : {"ok"}, rate : {0}, date : {NoMatch}]
    \cup [nav : {NoError}, wait : {"timeout", "error"}, rate : {0},
          date : {NoMatch}]
    \cup [nav : {NoError}, wait : {"ok"}, rate : {0}, date : {NoMatch}]
    \cup [nav : {NoError}, wait : {"ok"}, rate : {5123},
          date : {NoMatch, TargetDate - 1}]

\* _extract_result_advanced(pair) -> (rate_value, actual_date, status)
ExtractResultAdvanced(page) ==
    IF page.wait = "timeout"
    THEN <<0, TargetDate, ERRO_TIMEOUT_EXTRACAO>>
    ELSE IF page.wait = "error"
    THEN <<0, TargetDate, ERRO_EXTRACAO_PREFIX \o MSG_CONNECTION>>
    ELSE LET actual_date == IF page.date # NoMatch
                            THEN page.date ELSE TargetDate
             status == IF page.rate > 0
                       THEN IF actual_date # TargetDate
                            THEN SUCESSO_DATA_DIFERENTE
                            ELSE SUCESSO
                       ELSE STATUS_NOT_FOUND
         IN  <<page.rate, actual_date, status>>

-----------------------------------------------------------------------------
(* MoedasSpider: the strategies *)

\* document.body.getAttribute('data-rate') as read by strategy 3:
\*   "none"     null or empty, or the read raised
\*   "number"   float(rate_value) gives value
\*   "garbage"  float(rate_value) raises ValueError
Attrs ==
    [kind : {"none", "garbage"}, value : {0}]
    \cup [kind : {"number"}, value : {0, 5300}]

\* outcomes of _setup_driver: "ok"; "fail": webdriver.Chrome raises, no
\* browser was started; "fail_late": webdriver.Chrome returned a browser and
\* set_page_load_timeout or implicitly_wait raises before `self.driver =
\* driver`, so the browser runs and self.driver stays None
SpiderSetupOutcomes ==
    {"ok", "fail", "fail_late"}

\* environment of one strategy call; setup is the outcome of _setup_driver
FormEnvs ==
    [setup : SpiderSetupOutcomes, page : AdvPages,
     attr : {[kind |-> "none", value |-> 0]}]

JsEnvs ==
    [setup : SpiderSetupOutcomes, page : AdvPages, attr : Attrs]

\* placeholder for the value of a call that raised
NoResult ==
    <<0, TargetDate, <<>>>>

\* if not self.driver: self._setup_driver()
\*   started  browsers webdriver.Chrome started
SpiderSetup(drv, e) ==
    [driver  |-> IF drv = NoDriver /\ e.setup = "ok" THEN Held ELSE drv,
     failed  |-> drv = NoDriver /\ e.setup # "ok",
     setups  |-> IF drv = NoDriver THEN 1 ELSE 0,
     started |-> IF drv = NoDriver /\ e.setup # "fail" THEN 1 ELSE 0]

\* _strategy_form_submission(pair): the driver is set up before the try
\* block, so a setup failure is raised as it is
StrategyFormSubmission(pair, drv, e) ==
    LET su == SpiderSetup(drv, e)
    IN  IF su.failed
        THEN [raised |-> MSG_SESSION, result |-> NoResult,
              driver |-> su.driver, setups |-> su.setups,
              started |-> su.started]
        ELSE IF e.page.nav # NoError
        THEN [raised |-> STRATEGY_1_FAILED \o e.page.nav, result |-> NoResult,
              driver |-> su.driver, setups |-> su.setups,
              started |-> su.started]
        ELSE [raised |-> NoError, result |-> ExtractResultAdvanced(e.page),
              driver |-> su.driver, setups |-> su.setups,
              started |-> su.started]

\* _strategy_direct_navigation(pair)
StrategyDirectNavigation(pair, drv, e) ==
    LET su == SpiderSetup(drv, e)
    IN  IF su.failed
        THEN [raised |-> STRATEGY_2_FAILED \o MSG_SESSION,
              result |-> NoResult,
              driver |-> su.driver, setups |-> su.setups,
              started |-> su.started]
        ELSE IF e.page.nav # NoError
        THEN [raised |-> STRATEGY_2_FAILED \o e.page.nav, result |-> NoResult,
              driver |-> su.driver, setups |-> su.setups,
              started |-> su.started]
        ELSE [raised |-> NoError, result |-> ExtractResultAdvanced(e.page),
              driver |-> su.driver, setups |-> su.setups,
              started |-> su.started]

\* _strategy_javascript_injection(pair)
StrategyJavascriptInjection(pair, drv, e) ==
    LET su == SpiderSetup(drv, e)
    IN  IF su.failed
        THEN [raised |-> STRATEGY_3_FAILED \o MSG_SESSION,
              result |-> NoResult,
              driver |-> su.driver, setups |-> su.setups,
              started |-> su.started]
        ELSE IF e.page.nav # NoError
        THEN [raised |-> STRATEGY_3_FAILED \o e.page.nav, result |-> NoResult,
              driver |-> su.driver, setups |-> su.setups,
              started |-> su.started]
        ELSE IF e.attr.kind = "number"
        THEN [raised |-> NoError,
              result |-> <<e.attr.value, TargetDate, SUCESSO_JS>>,
              driver |-> su.driver, setups |-> su.setups,
              started |-> su.started]
        ELSE [raised |-> NoError, result |-> ExtractResultAdvanced(e.page),
              driver |-> su.driver, setups |-> su.setups,
              started |-> su.started]

\* the list with its first two entries exchanged
Strategies_Reordered ==
    <<"direct", "form", "js">>

\* the list `strategies` of _get_exchange_rate_hybrid
Strategies ==
    <<"form", "direct", "js">>

\* the first element of each entry of `strategies`
StrategyName(key) ==
    CASE key = "form"   -> NAME_FORM
      [] key = "direct" -> NAME_DIRECT
      [] key = "js"     -> NAME_JS

\* strategy_func(pair)
RunStrategy(key, pair, drv, envs) ==
    CASE key = "form"   -> StrategyFormSubmission(pair, drv, envs.form)
      [] key = "direct" -> StrategyDirectNavigation(pair, drv, envs.direct)
      [] key = "js"     -> StrategyJavascriptInjection(pair, drv, envs.js)

\* the calls of direct navigation without its driver.get
SessionActions_NoNavigation(key) ==
    CASE key = "form"   -> <<"get", "wait", "script", "script", "extract">>
      [] key = "direct" -> <<"extract">>
      [] key = "js"     -> <<"get", "script", "extract">>

\* the calls a strategy makes on the session after `if not self.driver:
\* self._setup_driver()`, in order: driver.get, WebDriverWait.until,
\* driver.execute_script (the cookie banner script, the form script, the
\* script of strategy 3) and _extract_result_advanced
SessionActions(key) ==
    CASE key = "form"   -> <<"get", "wait", "script", "script", "extract">>
      [] key = "direct" -> <<"get", "extract">>
      [] key = "js"     -> <<"get", "script", "extract">>

\* the page the calls after the first one act on: the page driver.get loaded
\* when the strategy navigates first, the page the session showed before
\* otherwise
PageSeen(key, left, fresh) ==
    IF Head(SessionActions(key)) = "get" THEN fresh ELSE left

\* strategy_func(pair) on a session that shows the page `left` of the
\* strategy or pair before it; e.page is what driver.get would load
StrategyInSession(key, pair, left, drv, e) ==
    LET seen == [e EXCEPT !.page = PageSeen(key, left, e.page)]
    IN  RunStrategy(key, pair, drv,
                    [form |-> seen, direct |-> seen, js |-> seen])

\* the value _get_exchange_rate_hybrid returns after the loop
AllStrategiesFailed ==
    <<0, TargetDate, ERRO_TODAS>>

\* the loop without its try/except: an exception of a strategy leaves it
RECURSIVE Hybrid_NoCatch(_, _, _, _, _, _, _)
Hybrid_NoCatch(i, pair, drv, envs, calls, setups, started) ==
    IF i > Len(Strategies)
    THEN [raised |-> NoError, result |-> AllStrategiesFailed,
          calls |-> calls, driver |-> drv, setups |-> setups,
          started |-> started]
    ELSE LET r    == RunStrategy(Strategies[i], pair, drv, envs)
             call == [name |-> Strategies[i], raised |-> r.raised # NoError,
                      result |-> r.result]
         IN  IF r.raised # NoError
             THEN [raised |-> r.raised, result |-> NoResult,
                   calls |-> Append(calls, call), driver |-> r.driver,
                   setups |-> setups + r.setups,
                   started |-> started + r.started]
             ELSE IF r.result[1] > 0
             THEN [raised |-> NoError, result |-> r.result,
                   calls |-> Append(calls, call), driver |-> r.driver,
                   setups |-> setups + r.setups,
                   started |-> started + r.started]
             ELSE Hybrid_NoCatch(i + 1, pair, r.driver, envs,
                                 Append(calls, call), setups + r.setups,
                                 started + r.started)

\* the loop of _get_exchange_rate_hybrid returning the result of the first
\* strategy that did not raise, whatever its rate
RECURSIVE Hybrid_AcceptsAny(_, _, _, _, _, _, _)
Hybrid_AcceptsAny(i, pair, drv, envs, calls, setups, started) ==
    IF i > Len(Strategies)
    THEN [raised |-> NoError, result |-> AllStrategiesFailed,
          calls |-> calls, driver |-> drv, setups |-> setups,
          started |-> started]
    ELSE LET r    == RunStrategy(Strategies[i], pair, drv, envs)
             call == [name |-> Strategies[i], raised |-> r.raised # NoError,
                      result |-> r.result]
         IN  IF r.raised = NoError
             THEN [raised |-> NoError, result |-> r.result,
                   calls |-> Append(calls, call), driver |-> r.driver,
                   setups |-> setups + r.setups,
                   started |-> started + r.started]
             ELSE Hybrid_AcceptsAny(i + 1, pair, r.driver, envs,
                                    Append(calls, call), setups + r.setups,
                                    started + r.started)

\* _get_exchange_rate_hybrid(pair), from the i-th strategy on:
\*   raised   NoError: every exception of a strategy is caught in the loop
\*   result   the triple returned
\*   calls    the strategy calls made, in order
RECURSIVE Hybrid(_, _, _, _, _, _, _)
Hybrid(i, pair, drv, envs, calls, setups, started) ==
    IF i > Len(Strategies)
    THEN [raised |-> NoError, result |-> AllStrategiesFailed,
          calls |-> calls, driver |-> drv, setups |-> setups,
          started |-> started]
    ELSE LET r    == RunStrategy(Strategies[i], pair, drv, envs)
             call == [name |-> Strategies[i], raised |-> r.raised # NoError,
                      result |-> r.result]
         IN  IF r.raised = NoError /\ r.result[1] > 0
             THEN [raised |-> NoError, result |-> r.result,
                   calls |-> Append(calls, call), driver |-> r.driver,
                   setups |-> setups + r.setups,
                   started |-> started + r.started]
             ELSE Hybrid(i + 1, pair, r.driver, envs, Append(calls, call),
                         setups + r.setups, started + r.started)

-----------------------------------------------------------------------------
(* MoedasSpider._get_rate_via_api *)

\* keys of currency_codes
ApiCurrencies ==
    {"USD", "EUR", "GBP", "JPY", "CAD", "AUD", "CHF"}

\* what requests.get(url, timeout=10) leads to: "rate" a body whose first
\* value carries cotacaoVenda 5.4; "empty" another status code, an empty value
\* list or a rate that is not positive; "raises" an exception
ApiResponses ==
    {"rate", "empty", "raises"}

\* _get_rate_via_api asking the service for every source currency of the
\* table, whatever the destination
GetRateViaApi_AnyDestination(pair, response) ==
    IF pair.from_currency \in ApiCurrencies
    THEN [requested |-> TRUE, raised |-> NoError,
          result |-> CASE response = "rate" ->
                            <<5400, TargetDate, SUCESSO_API>>
                       [] response = "empty" ->
                            <<0, TargetDate, API_INDISPONIVEL>>
                       [] response = "raises" ->
                            <<0, TargetDate,
                              ERRO_API_PREFIX \o MSG_CONNECTION>>]
    ELSE [requested |-> FALSE, raised |-> NoError,
          result |-> <<0, TargetDate, API_INDISPONIVEL>>]

\* _get_rate_via_api(pair) -> (rate, date, status); `requested` tells whether
\* requests.get was called; `raised` is NoError, the whole body being inside
\* try/except Exception
GetRateViaApi(pair, response) ==
    IF pair.from_currency \in ApiCurrencies /\ pair.to_currency = "BRL"
    THEN [requested |-> TRUE, raised |-> NoError,
          result |-> CASE response = "rate" ->
                            <<5400, TargetDate, SUCESSO_API>>
                       [] response = "empty" ->
                            <<0, TargetDate, API_INDISPONIVEL>>
                       [] response = "raises" ->
                            <<0, TargetDate,
                              ERRO_API_PREFIX \o MSG_CONNECTION>>]
    ELSE [requested |-> FALSE, raised |-> NoError,
          result |-> <<0, TargetDate, API_INDISPONIVEL>>]

-----------------------------------------------------------------------------
(* MoedasSpider.parse *)

UpperCase ==
    <<"A","B","C","D","E","F","G","H","I","J","K","L","M","N","O","P","Q",
      "R","S","T","U","V","W","X","Y","Z">>

LowerCase ==
    <<"a","b","c","d","e","f","g","h","i","j","k","l","m","n","o","p","q",
      "r","s","t","u","v","w","x","y","z">>

\* Python: text.lower()
Lower(text) ==
    [i \in 1..Len(text) |->
        IF \E k \in 1..Len(UpperCase) : UpperCase[k] = text[i]
        THEN LowerCase[CHOOSE k \in 1..Len(UpperCase) : UpperCase[k] = text[i]]
        ELSE text[i]]

\* the test written with the lower-case needle of the result log
NeedsApiFallback_LowerCase(rate_value, status) ==
    rate_value = 0 /\ Contains(status, ERRO_LOWER)

\* if rate_value == 0.0 and "Erro" in status
NeedsApiFallback(rate_value, status) ==
    rate_value = 0 /\ Contains(status, ERRO)

\* environment of one iteration of parse: one per strategy, and the answer of
\* the public API
SpiderEnvs ==
    [form : FormEnvs, direct : FormEnvs, js : JsEnvs, api : ApiResponses]

\* one iteration of `for i, pair in enumerate(self.currency_pairs)`:
\*   raised  message of an exception leaving the iteration (parse has no
\*           handler of its own), NoError otherwise
\*   rate    the ExchangeRate appended to self.results
\*   calls   the strategy calls made, the API call last
\*   started browsers started during the iteration
ParsePair(pair, drv, env) ==
    LET h     == Hybrid(1, pair, drv, env, <<>>, 0, 0)
        api   == GetRateViaApi(pair, env.api)
        asked == h.raised = NoError
                 /\ NeedsApiFallback(h.result[1], h.result[3])
        final == IF asked /\ api.result[1] > 0 THEN api.result ELSE h.result
    IN  [raised |-> IF asked THEN api.raised ELSE h.raised,
         rate   |-> ExchangeRate(pair, final[1], final[2], final[3]),
         calls  |-> IF asked
                    THEN Append(h.calls, [name |-> "api",
                                          raised |-> api.raised # NoError,
                                          result |-> api.result])
                    ELSE h.calls,
         driver |-> h.driver,
         started |-> h.started]

\* pairs _load_currency_pairs hands to the spider: one the public API
\* serves, one it does not
SpiderPairs ==
    {CurrencyPair("USD", "BRL"), CurrencyPair("BRL", "USD")}

\* pair lists of length 1..MaxPairs: _load_currency_pairs never returns an
\* empty list
SpiderPairLists ==
    UNION {[1..n -> SpiderPairs] : n \in 1..MaxPairs}

\* every way one iteration can go, per pair and state of self.driver
PairRuns ==
    [pair \in SpiderPairs, drv \in {NoDriver, Held} |->
        {ParsePair(pair, drv, env) : env \in SpiderEnvs}]

\* _save_results: <<success_count, error_count, warning_count>>
SaveResults(rates) ==
    LET success == Cardinality({i \in 1..Len(rates) :
                       Contains(Lower(rates[i].status), SUCESSO_LOWER)})
        errors  == Cardinality({i \in 1..Len(rates) :
                       Contains(Lower(rates[i].status), ERRO_LOWER)})
    IN  <<success, errors, Len(rates) - success - errors>>

\* the Selenium orchestrator is idle while the spider runs
BcbIdle ==
    /\ currency_pairs = <<>>
    /\ rate_date = Today
    /\ pc = "idle"
    /\ idx = 0
    /\ results = <<>>
    /\ success_count = 0
    /\ warning_count = 0
    /\ error_count = 0
    /\ driver = NoDriver
    /\ outcome = "running"
    /\ close_calls = 0
    /\ quit_calls = 0
    /\ quit_failures = 0
    /\ setup_calls = 0
    /\ sessions = 0
    /\ hist = <<>>

\* MoedasSpider()
InitSpider ==
    /\ BcbIdle
    /\ ParserIdle
    /\ StepsIdle
    /\ TwiceIdle
    /\ ScrapyIdle
    /\ sp_pc = "parse"
    /\ sp_pairs \in SpiderPairLists
    /\ sp_idx = 0
    /\ sp_results = <<>>
    /\ sp_driver = NoDriver
    /\ sp_stats = <<0, 0, 0>>
    /\ sp_calls = <<>>
    /\ sp_quit_calls = 0
    /\ sp_live = 0

\* parse takes the next pair, appends its record and yields it
SpiderNextPair ==
    /\ sp_pc = "parse"
    /\ sp_idx < Len(sp_pairs)
    /\ \E run \in PairRuns[sp_pairs[sp_idx + 1], sp_driver] :
          /\ sp_calls' = run.calls
          /\ sp_driver' = run.driver
          /\ sp_live' = sp_live + run.started
          /\ IF run.raised = NoError
             THEN /\ sp_results' = Append(sp_results, run.rate)
                  /\ sp_idx' = sp_idx + 1
                  /\ sp_pc' = sp_pc
             ELSE /\ sp_pc' = "crashed"
                  /\ UNCHANGED <<sp_results, sp_idx>>
    /\ UNCHANGED <<sp_pairs, sp_stats, sp_quit_calls, bcbVars, prVars, stVars,
                   twVars, scVars>>

\* the loop is exhausted: progress.finish and _save_results
SpiderSaveResults ==
    /\ sp_pc = "parse"
    /\ sp_idx = Len(sp_pairs)
    /\ sp_stats' = SaveResults(sp_results)
    /\ sp_pc' = "saved"
    /\ UNCHANGED <<sp_pairs, sp_idx, sp_results, sp_driver, sp_calls,
                   sp_quit_calls, sp_live, bcbVars, prVars, stVars,
                   twVars, scVars>>

\* closed(reason): quit the driver if one is held, ignoring its exceptions;
\* self.driver is not reset
SpiderClosed ==
    /\ sp_pc \in {"saved", "crashed"}
    /\ sp_quit_calls' = sp_quit_calls + (IF sp_driver # NoDriver THEN 1 ELSE 0)
    /\ \E quit_ok \in BOOLEAN :
          sp_live' = IF sp_driver # NoDriver /\ quit_ok
                     THEN sp_live - 1 ELSE sp_live
    /\ sp_pc' = "closed"
    /\ UNCHANGED <<sp_pairs, sp_idx, sp_results, sp_driver, sp_stats,
                   sp_calls, bcbVars, prVars, stVars,
                   twVars, scVars>>

NextSpider ==
    \/ SpiderNextPair
    \/ SpiderSaveResults
    \/ SpiderClosed

SpecSpider ==
    InitSpider /\ [][NextSpider]_vars

\* either orchestrator: a run of BCBAutomation.extract_all_exchange_rates or
\* a run of MoedasSpider.parse
InitOrchestrators ==
    Init \/ InitSpider

NextOrchestrators ==
    \/ Next
    \/ NextSpider

SpecOrchestrators ==
    InitOrchestrators /\ [][NextOrchestrators]_vars

-----------------------------------------------------------------------------
(* Text of numbers and dates, as the parsers read it *)

Digits ==
    <<"0","1","2","3","4","5","6","7","8","9">>

\* regex \d
IsDigit(c) ==
    \E k \in 1..Len(Digits) : Digits[k] = c

\* int(text) of a string of digits
RECURSIVE ToInt(_)
ToInt(text) ==
    IF text = <<>>
    THEN 0
    ELSE 10 * ToInt(SubSeq(text, 1, Len(text) - 1))
           + (CHOOSE k \in 1..Len(Digits) : Digits[k] = text[Len(text)]) - 1

\* Python: text.replace(old, new), old one character, new a string
RECURSIVE Replace(_, _, _)
Replace(text, old, new) ==
    IF text = <<>>
    THEN <<>>
    ELSE (IF Head(text) = old THEN new ELSE <<Head(text)>>)
           \o Replace(Tail(text), old, new)

\* float(text) in thousandths, NoMatch when float raises ValueError; text is
\* made of digits, "." and ","; decimals after the third are dropped (the
\* texts of the model carry at most three)
Float(text) ==
    LET dots == {i \in 1..Len(text) : text[i] = "."}
        ok   == /\ \A i \in 1..Len(text) : IsDigit(text[i]) \/ text[i] = "."
                /\ Cardinality(dots) <= 1
                /\ Len(text) > Cardinality(dots)
    IN  IF ~ok
        THEN NoMatch
        ELSE LET p    == IF dots = {} THEN Len(text) + 1
                         ELSE CHOOSE i \in dots : TRUE
                 frac == SubSeq(text, p + 1, Len(text)) \o <<"0","0","0">>
             IN  ToInt(SubSeq(text, 1, p - 1)) * 1000
                   + ToInt(SubSeq(frac, 1, 3))

\* the group of the first match of [0-9]+[.,][0-9]+ in a number text that
\* starts with a digit; <<>> when there is no match
FirstNumber(text) ==
    LET run(from) == CHOOSE n \in 0..Len(text) :
                        /\ \A i \in from..(from + n - 1) :
                              i <= Len(text) /\ IsDigit(text[i])
                        /\ from + n > Len(text) \/ ~IsDigit(text[from + n])
        a == run(1)
        b == run(a + 2)
    IN  IF a >= 1 /\ a + 1 <= Len(text) /\ text[a + 1] \in {".", ","} /\ b >= 1
        THEN SubSeq(text, 1, a + 1 + b)
        ELSE <<>>

\* _extract_result: value_str = group(1).replace(".", "").replace(",", ".")
\* and float(value_str); NoMatch without a match or when float raises
BcbValue(text) ==
    IF text = <<>>
    THEN NoMatch
    ELSE Float(Replace(Replace(text, ".", <<>>), ",", <<".">>))

\* _extract_result_advanced: clean_value = re.sub(r'[^\d.,]', '', match)
\* .replace(',', '.') and potential_value = float(clean_value)
AdvValue(match) ==
    Float(Replace(SelectSeq(match, LAMBDA c : IsDigit(c) \/ c \in {".", ","}),
                  ",", <<".">>))

\* calendar.isleap
IsLeap(y) ==
    y % 4 = 0 /\ (y % 100 # 0 \/ y % 400 = 0)

DaysInMonth(y, m) ==
    IF m = 2
    THEN (IF IsLeap(y) THEN 29 ELSE 28)
    ELSE IF m \in {4, 6, 9, 11} THEN 30 ELSE 31

\* days of the months of year y before month m
RECURSIVE DaysBeforeMonth(_, _)
DaysBeforeMonth(y, m) ==
    IF m <= 1 THEN 0 ELSE DaysBeforeMonth(y, m - 1) + DaysInMonth(y, m - 1)

\* date(y, m, d).toordinal()
ToOrdinal(y, m, d) ==
    (y - 1) * 365 + ((y - 1) \div 4) - ((y - 1) \div 100) + ((y - 1) \div 400)
      + DaysBeforeMonth(y, m) + d

\* datetime.strptime(text, fmt).date() as an ordinal, NoMatch when strptime
\* raises ValueError; text is one of the ten-character groups the date
\* patterns capture
Strptime(text, fmt) ==
    LET yfirst == fmt = "%Y-%m-%d"
        sep    == IF fmt = "%d/%m/%Y" THEN "/" ELSE "-"
        p1     == IF yfirst THEN 5 ELSE 3
        p2     == IF yfirst THEN 8 ELSE 6
        shape  == /\ Len(text) = 10
                  /\ \A i \in 1..10 : IF i \in {p1, p2}
                                      THEN text[i] = sep
                                      ELSE IsDigit(text[i])
    IN  IF ~shape
        THEN NoMatch
        ELSE LET y == ToInt(IF yfirst THEN SubSeq(text, 1, 4)
                            ELSE SubSeq(text, 7, 10))
                 m == ToInt(SubSeq(text, p1 + 1, p2 - 1))
                 d == ToInt(IF yfirst THEN SubSeq(text, 9, 10)
                            ELSE SubSeq(text, 1, 2))
             IN  IF y >= 1 /\ m \in 1..12 /\ d \in 1..DaysInMonth(y, m)
                 THEN ToOrdinal(y, m, d)
                 ELSE NoMatch

-----------------------------------------------------------------------------
(* MoedasSpider._extract_result_advanced: the rate walk and the date walk *)

\* for match in matches: the first value in 3.0..10.0 ends the loop; a value
\* in 0.1..50.0 is kept and the loop goes on; a match float() refuses is
\* skipped
RECURSIVE WalkMatches(_, _, _)
WalkMatches(matches, i, rate_value) ==
    IF i > Len(matches)
    THEN rate_value
    ELSE LET potential_value == AdvValue(matches[i])
         IN  IF potential_value = NoMatch
             THEN WalkMatches(matches, i + 1, rate_value)
             ELSE IF 3000 <= potential_value /\ potential_value <= 10000
             THEN potential_value
             ELSE IF 100 <= potential_value /\ potential_value <= 50000
             THEN WalkMatches(matches, i + 1, potential_value)
             ELSE WalkMatches(matches, i + 1, rate_value)

\* for pattern in patterns: ... if rate_value > 0: break; found[k] holds the
\* number texts pattern k meets, re.findall giving the group of each
RECURSIVE WalkPatterns(_, _)
WalkPatterns(found, k) ==
    IF k > Len(found)
    THEN 0
    ELSE LET matches    == [i \in 1..Len(found[k]) |-> FirstNumber(found[k][i])]
             rate_value == WalkMatches(matches, 1, 0)
         IN  IF rate_value > 0 THEN rate_value ELSE WalkPatterns(found, k + 1)

\* the if/elif/else choosing the format of strptime
ParsedDate(date_str) ==
    IF \E i \in 1..Len(date_str) : date_str[i] = "/"
    THEN Strptime(date_str, "%d/%m/%Y")
    ELSE IF (\E i \in 1..Len(date_str) : date_str[i] = "-")
            /\ Len(date_str) = 10
    THEN Strptime(date_str, "%Y-%m-%d")
    ELSE Strptime(date_str, "%d-%m-%Y")

\* for date_str in date_matches: the first date within 7 days of the target
\* ends the loop; NoMatch when the loop ends without one
RECURSIVE WalkDateMatches(_, _)
WalkDateMatches(date_matches, i) ==
    IF i > Len(date_matches)
    THEN NoMatch
    ELSE LET parsed_date == ParsedDate(date_matches[i])
             days        == parsed_date - TargetDate
         IN  IF parsed_date # NoMatch /\ days <= 7 /\ days >= -7
             THEN parsed_date
             ELSE WalkDateMatches(date_matches, i + 1)

\* for date_pattern in date_patterns: ... if actual_date != self.target_date:
\* break
RECURSIVE WalkDatePatterns(_, _, _)
WalkDatePatterns(found, k, actual_date) ==
    IF k > Len(found)
    THEN actual_date
    ELSE LET hit == WalkDateMatches(found[k], 1)
             now == IF hit # NoMatch THEN hit ELSE actual_date
         IN  IF now # TargetDate
             THEN now
             ELSE WalkDatePatterns(found, k + 1, now)

-----------------------------------------------------------------------------
(* The parsers applied to the text of a page (SpecParser) *)

\* most matches one pattern finds on a page
MaxMatches ==
    2

\* entries of `patterns` the model follows: a pattern that finds nothing
\* is passed over, so two entries stand for the list of eleven
NumRatePatterns ==
    2

\* numbers as pages write them: "1234.56", "1.234,56", "1234,56", "5,123",
\* "5.3", "10000,5", "10000.5", ","
NumberTexts ==
    {<<"1","2","3","4",".","5","6">>,
     <<"1",".","2","3","4",",","5","6">>,
     <<"1","2","3","4",",","5","6">>,
     <<"5",",","1","2","3">>,
     <<"5",".","3">>,
     <<"1","0","0","0","0",",","5">>,
     <<"1","0","0","0","0",".","5">>,
     <<",">>}

\* numbers the rate walk meets: "5,123", "0,25", "12,5", "10000,5"
WalkTexts ==
    {<<"5",",","1","2","3">>,
     <<"0",",","2","5">>,
     <<"1","2",",","5">>,
     <<"1","0","0","0","0",",","5">>}

\* a day of January of year 1 as a page writes it in the format fmt
DateText(day, fmt) ==
    LET dd == <<Digits[(day \div 10) + 1], Digits[(day % 10) + 1]>>
    IN  CASE fmt = "%d/%m/%Y" -> dd \o <<"/","0","1","/","0","0","0","1">>
          [] fmt = "%Y-%m-%d" -> <<"0","0","0","1","-","0","1","-">> \o dd
          [] fmt = "%d-%m-%Y" -> dd \o <<"-","0","1","-","0","0","0","1">>

\* the formats of date_patterns, in the order of the list
DateFormats ==
    <<"%d/%m/%Y", "%Y-%m-%d", "%d-%m-%Y">>

\* days the k-th date pattern finds on pages: two days before the target
\* date, a day outside the window of 7 days and, for the first pattern, the
\* target date
PageDays(k) ==
    IF k = 1
    THEN {TargetDate, TargetDate - 2, TargetDate + 15}
    ELSE {TargetDate - 2, TargetDate + 15}

\* sequences over S of length lo..hi
SeqsOf(S, lo, hi) ==
    UNION {[1..n -> S] : n \in lo..hi}

\* What a page holds for the parsers:
\*   readable  card-body text or page_source can be read (_extract_result)
\*   wait      outcome of WebDriverWait.until (_extract_result_advanced)
\*   conv      group of 'Resultado da conversão:?\s*([\d,.]+)'
\*   tax       group of '1\s+[\w/()]+\s+=\s+([\d,.]+)'
\*   dateUsed  group of 'Data cotação utilizada:?\s*(\d{2}/\d{2}/\d{4})'
\*   rates     per rate pattern, the numbers it meets
\*   dates     per date pattern, the groups re.findall returns
\*   attr      document.body.getAttribute('data-rate')
\* The generic selectors of _extract_result find nothing on these pages.
TextPages ==
    {[BlankPage EXCEPT !.conv = c, !.tax = t, !.dateUsed = d, !.attr = a] :
        c \in NumberTexts \cup {NoText},
        t \in {NoText, <<"5",",","2">>},
        d \in {NoText, DateText(TargetDate - 1, "%d/%m/%Y")},
        a \in NumberTexts \cup {NoText}}
    \cup {[BlankPage EXCEPT !.rates = r] :
            r \in [1..NumRatePatterns -> SeqsOf(WalkTexts, 0, MaxMatches)]}
    \cup {[BlankPage EXCEPT !.rates = <<<<<<"5",",","1","2","3">>>>, <<>>>>,
                            !.dates = [k \in 1..3 |->
                                [i \in 1..Len(ds[k]) |->
                                    DateText(ds[k][i], DateFormats[k])]]] :
            ds \in {f \in [1..3 -> SeqsOf(PageDays(1), 0, MaxMatches)] :
                       \A k \in 1..3 : \A i \in 1..Len(f[k]) :
                           f[k][i] \in PageDays(k)}}
    \cup {[BlankPage EXCEPT !.readable = b, !.wait = w,
                            !.conv = <<"5",",","1","2","3">>,
                            !.rates = <<<<<<"5",",","1","2","3">>>>, <<>>>>] :
            b \in BOOLEAN, w \in {"ok", "timeout", "error"}}

\* the page as _extract_result meets it
BcbPageOf(page) ==
    [readable |-> page.readable,
     conv     |-> BcbValue(page.conv),
     tax      |-> BcbValue(page.tax),
     dateUsed |-> IF page.dateUsed = NoText
                  THEN NoMatch
                  ELSE Strptime(page.dateUsed, "%d/%m/%Y"),
     selRates |-> [i \in 1..NumResultSelectors |-> NoMatch],
     selDates |-> [i \in 1..NumDateSelectors |-> NoMatch]]

\* the page as _extract_result_advanced meets it
AdvPageOf(page) ==
    [nav  |-> NoError,
     wait |-> page.wait,
     rate |-> WalkPatterns(page.rates, 1),
     date |-> WalkDatePatterns(page.dates, 1, TargetDate)]

\* the attribute as strategy 3 reads it
AttrOf(text) ==
    IF text = NoText
    THEN [kind |-> "none", value |-> 0]
    ELSE IF Float(text) = NoMatch
    THEN [kind |-> "garbage", value |-> 0]
    ELSE [kind |-> "number", value |-> Float(text)]

\* _extract_result without its outer try/except: a page that cannot be read
\* makes it raise
ReadBcb_NoOuterTry(page, requested) ==
    LET r == ExtractResult(BcbPageOf(page))
    IN  Output(~page.readable, r[1], r[2], StatusOf(r[1], r[2], requested))

\* rate_value, actual_date = self._extract_result() and the status
\* get_exchange_rate derives from them
ReadBcb(page, requested) ==
    LET r == ExtractResult(BcbPageOf(page))
    IN  Output(FALSE, r[1], r[2], StatusOf(r[1], r[2], requested))

\* _extract_result_advanced(pair)
ReadAdvanced(page) ==
    LET r == ExtractResultAdvanced(AdvPageOf(page))
    IN  Output(FALSE, r[1], r[2], r[3])

\* strategy 3 from the read of the marker attribute on
ReadMarker(page) ==
    LET s == StrategyJavascriptInjection(
                 CurrencyPair("USD", "BRL"), Held,
                 [setup |-> "ok", page |-> AdvPageOf(page),
                  attr |-> AttrOf(page.attr)])
    IN  Output(s.raised # NoError, s.result[1], s.result[2], s.result[3])

\* a page has been loaded for a requested date
InitParser ==
    /\ BcbIdle
    /\ SpiderIdle
    /\ StepsIdle
    /\ TwiceIdle
    /\ ScrapyIdle
    /\ pr_pc = "page"
    /\ pr_page \in TextPages
    /\ pr_requested \in RequestedDates
    /\ pr_out = NoOutput

\* BCBAutomation reads the page
ParseBcb ==
    /\ pr_pc = "page"
    /\ pr_out' = ReadBcb(pr_page, pr_requested)
    /\ pr_pc' = "bcb"
    /\ UNCHANGED <<pr_page, pr_requested, bcbVars, spVars, stVars,
                   twVars, scVars>>

\* a strategy of the spider reads the page
ParseAdvanced ==
    /\ pr_pc = "page"
    /\ pr_out' = ReadAdvanced(pr_page)
    /\ pr_pc' = "adv"
    /\ UNCHANGED <<pr_page, pr_requested, bcbVars, spVars, stVars,
                   twVars, scVars>>

\* strategy 3 of the spider reads the marker attribute, then the page
ParseMarker ==
    /\ pr_pc = "page"
    /\ pr_out' = ReadMarker(pr_page)
    /\ pr_pc' = "js"
    /\ UNCHANGED <<pr_page, pr_requested, bcbVars, spVars, stVars,
                   twVars, scVars>>

NextParser ==
    \/ ParseBcb
    \/ ParseAdvanced
    \/ ParseMarker

SpecParser ==
    InitParser /\ [][NextParser]_vars

-----------------------------------------------------------------------------
(* Steps of the form flow of BCBAutomation.get_exchange_rate *)

\* most elements a selector finds on the page
MaxElements ==
    2

\* for element in elements: if <test>: ... break/return: the index of the
\* first element that passes the test, 0 if the loop runs out
FirstIndex(elements, Test(_)) ==
    LET hits == {i \in 1..Len(elements) : Test(elements[i])}
    IN  IF hits = {}
        THEN 0
        ELSE CHOOSE i \in hits : \A j \in hits : i <= j

\* _select_currency that returns without a click when no strategy located
\* the option
SelectCurrency_ReturnsUnselected(inp) ==
    LET hit(k) == FirstIndex(inp.found[k], LAMBDA it : it.state = "shown")
        ks     == {k \in 1..Len(inp.found) : hit(k) # 0}
        k1     == CHOOSE k \in ks : \A j \in ks : k <= j
        last   == FirstIndex(inp.all,
                             LAMBDA it : it.state # "stale" /\ it.text)
    IN  IF inp.button = "raise"
        THEN [raised |-> TRUE, clicked |-> <<0, 0>>]
        ELSE IF ks # {}
        THEN [raised |-> FALSE, clicked |-> <<k1, hit(k1)>>]
        ELSE IF inp.reopen = "ok" /\ last # 0
        THEN [raised |-> FALSE, clicked |-> <<4, last>>]
        ELSE [raised |-> FALSE, clicked |-> <<0, 0>>]

\* _select_currency(button_id, currency_name) on a page where `found[k]` are
\* the elements of item selector k and `all` the dropdown items; an element is
\* "shown" (is_displayed() is true), "hidden" (false) or "stale" (every call
\* on it raises), and its `text` tells whether currency_name is in item.text.
\* clicked is <<k, j>>: element j of selector k (k = 4: the list `all`), or
\* <<0, 0>>; raised: the ValueError of the last lines
SelectCurrency(inp) ==
    LET hit(k) == FirstIndex(inp.found[k], LAMBDA it : it.state = "shown")
        ks     == {k \in 1..Len(inp.found) : hit(k) # 0}
        k1     == CHOOSE k \in ks : \A j \in ks : k <= j
        last   == FirstIndex(inp.all,
                             LAMBDA it : it.state # "stale" /\ it.text)
    IN  IF inp.button = "raise"
        THEN [raised |-> TRUE, clicked |-> <<0, 0>>]
        ELSE IF ks # {}
        THEN [raised |-> FALSE, clicked |-> <<k1, hit(k1)>>]
        ELSE IF inp.reopen = "ok" /\ last # 0
        THEN [raised |-> FALSE, clicked |-> <<4, last>>]
        ELSE [raised |-> TRUE, clicked |-> <<0, 0>>]

\* cookie_selectors and generic_selectors of _close_banners
NumCookieSelectors ==
    5

\* _close_banners without its except clauses
CloseBanners_NoExcept(inp) ==
    LET first == FirstIndex(inp.cookie,
                            LAMBDA o : o \in {"click", "js", "actions"})
        seen(i) == first = 0 \/ i <= first
        bad == \E i \in 1..Len(inp.cookie) :
                  seen(i) /\ inp.cookie[i] \in {"raise", "stale", "no_click"}
    IN  [raised |-> inp.driver = "None" \/ bad \/ inp.generic = "raise",
         closed |-> first # 0,
         clicks |-> (IF first # 0 THEN 1 ELSE 0)
                      + (IF inp.generic = "click" THEN 1 ELSE 0)]

\* _close_banners() on a page where cookie[i] tells what cookie selector i
\* leads to: "none" no element, "hidden" an element that is not displayed,
\* "raise" find_elements raises, "stale" is_displayed raises, "click" the
\* element is clicked, "js" click raises and the script click works,
\* "actions" both raise and ActionChains works, "no_click" all three raise;
\* generic tells the same of the generic selectors. driver is "None" when
\* self.driver is None (every call raises AttributeError).
CloseBanners(inp) ==
    LET live  == inp.driver # "None"
        first == IF live
                 THEN FirstIndex(inp.cookie,
                                 LAMBDA o : o \in {"click", "js", "actions"})
                 ELSE 0
    IN  [raised |-> FALSE,
         closed |-> first # 0,
         clicks |-> (IF first # 0 THEN 1 ELSE 0)
                      + (IF live /\ inp.generic = "click" THEN 1 ELSE 0)]

\* MoedasSpider._close_cookie_banner(): one execute_script inside try/except
CloseCookieBanner(inp) ==
    [raised |-> FALSE,
     closed |-> inp.driver # "None" /\ inp.script = "ok",
     clicks |-> 0]

\* the date step of get_exchange_rate, an exception of which leaves the step
FillDate_Propagates(inp) ==
    LET failed == \/ inp.date_input = "shown" /\ inp.date_write = "raise"
                  \/ inp.date_input # "shown" /\ inp.date_script = "raise"
    IN  [raised |-> failed,
         error  |-> failed,
         filled |-> IF failed THEN "no"
                    ELSE IF inp.date_input = "shown" THEN "input"
                    ELSE "script"]

\* the date step of get_exchange_rate (try ... except Exception: log):
\* date_input is "shown" when a selector finds a displayed input, "none" when
\* none does, "raise" when every find_elements raises (date_input stays
\* None); date_write tells whether clear/send_keys/execute_script on the
\* input raise, date_script whether the script of the other branch raises
FillDate(inp) ==
    LET failed == \/ inp.date_input = "shown" /\ inp.date_write = "raise"
                  \/ inp.date_input # "shown" /\ inp.date_script = "raise"
    IN  [raised |-> FALSE,
         error  |-> failed,
         filled |-> IF failed THEN "no"
                    ELSE IF inp.date_input = "shown" THEN "input"
                    ELSE "script"]

\* the submit step of get_exchange_rate (try ... except Exception: log):
\* button is "shown" when a selector finds a displayed button, else "none";
\* click tells which of the three clicks works ("click", "js", "actions",
\* "no_click"); submit_script what js_click does when no button was found:
\* "clicked" (it returns true), "nothing" (it returns false), "raise"
ClickSubmit(inp) ==
    IF inp.button = "shown"
    THEN [raised |-> FALSE,
          error  |-> inp.click = "no_click",
          clicked |-> IF inp.click = "no_click" THEN "no" ELSE "button"]
    ELSE [raised |-> FALSE,
          error  |-> inp.submit_script = "raise",
          clicked |-> IF inp.submit_script = "clicked" THEN "script"
                      ELSE "no"]

\* get_exchange_rate(pair, rate_date) with a driver held, on a page that
\* loads: banners, the two selections, the date step, the submit step, then
\* _extract_result and the status.  `call` is what get_exchange_rate hands
\* back; date and submit are the two steps when they were reached.
FormFlow(inp) ==
    LET selected == inp.selects = "ok"
        date     == FillDate(inp)
        submit   == ClickSubmit(inp)
        through  == selected /\ ~date.raised /\ ~submit.raised
        e == [setup     |-> "ok",
              step      |-> IF ~selected THEN MSG_SELECT
                            ELSE IF ~through THEN MSG_TIMEOUT
                            ELSE NoError,
              extracted |-> inp.extracted,
              escape    |-> "no"]
    IN  [call      |-> GetExchangeRate(inp.pair, inp.requested, Held, e),
         date      |-> IF selected THEN date.filled ELSE "unreached",
         date_error |-> selected /\ date.error,
         submit    |-> IF selected /\ ~date.raised
                       THEN submit.clicked ELSE "unreached",
         submit_error |-> selected /\ ~date.raised /\ submit.error,
         extracted |-> through]

-----------------------------------------------------------------------------
(* Files: write_exchange_rates, read_currency_pairs, _load_currency_pairs *)

\* BCBAutomation.write_exchange_rates(exchange_rates): each of mkdir
\* (os.makedirs), out and main (the two df.to_excel of the try block),
\* alt_out and alt_main (the two of `except PermissionError`) and temp (the
\* one of `except Exception`) is "ok", "perm" (it raises PermissionError) or
\* "other" (it raises another Exception, say OSError).  raised is "none" or
\* the class of the exception that leaves the method, path what is returned,
\* writes the df.to_excel calls made in order.  `data` is assigned after
\* os.makedirs, so both handlers find it unbound when makedirs raised.
WriteExchangeRates(inp) ==
    LET Exc(o)  == IF o = "perm" THEN "PermissionError" ELSE "OSError"
        primary == IF inp.mkdir # "ok" THEN inp.mkdir
                   ELSE IF inp.out # "ok" THEN inp.out
                   ELSE inp.main
        first   == IF inp.mkdir # "ok" THEN <<>>
                   ELSE IF inp.out # "ok" THEN <<"out">>
                   ELSE <<"out", "main">>
        bound   == inp.mkdir = "ok"
    IN  CASE primary = "ok" ->
               [raised |-> "none", path |-> "main", writes |-> first]
          [] primary = "perm" ->
               IF ~bound
               THEN [raised |-> "UnboundLocalError", path |-> "none",
                     writes |-> first]
               ELSE IF inp.alt_out # "ok"
               THEN [raised |-> Exc(inp.alt_out), path |-> "none",
                     writes |-> first \o <<"alt_out">>]
               ELSE IF inp.alt_main # "ok"
               THEN [raised |-> Exc(inp.alt_main), path |-> "none",
                     writes |-> first \o <<"alt_out", "alt_main">>]
               ELSE [raised |-> "none", path |-> "alt_main",
                     writes |-> first \o <<"alt_out", "alt_main">>]
          [] OTHER ->
               IF ~bound
               THEN [raised |-> "ValueError", path |-> "none",
                     writes |-> first]
               ELSE IF inp.temp # "ok"
               THEN [raised |-> "ValueError", path |-> "none",
                     writes |-> first \o <<"temp">>]
               ELSE [raised |-> "none", path |-> "temp",
                     writes |-> first \o <<"temp">>]

\* the rows create_sample_input_file writes: two cells each, a cell being a
\* text
SampleRows ==
    <<<<<<"U","S","D">>, <<"B","R","L">>>>,
      <<<<"E","U","R">>, <<"B","R","L">>>>,
      <<<<"G","B","P">>, <<"B","R","L">>>>,
      <<<<"J","P","Y">>, <<"B","R","L">>>>,
      <<<<"B","R","L">>, <<"U","S","D">>>>>>

\* BCBAutomation.read_currency_pairs(), openpyxl being installed: root tells
\* whether ./currencies.xlsx exists, exists whether the file of input_dir
\* does, create whether create_sample_input_file can write it, readable
\* whether pd.read_excel reads the file that exists, columns what its header
\* is ("pt", "en", "two": two other columns, "one": a single column) and
\* rows its cells.  raised: a ValueError leaves the method.
ReadCurrencyPairs(inp) ==
    LET make     == ~inp.root /\ ~inp.exists
        readable == IF make THEN inp.create = "ok" ELSE inp.readable
        columns  == IF make THEN "pt" ELSE inp.columns
        rows     == IF make THEN SampleRows ELSE inp.rows
    IN  IF ~readable \/ columns = "one"
        THEN [raised |-> TRUE, pairs |-> <<>>,
              created |-> make /\ inp.create = "ok"]
        ELSE [raised |-> FALSE,
              pairs |-> [i \in 1..Len(rows) |->
                            CurrencyPair(rows[i][1], rows[i][2])],
              created |-> make]

\* the text run() looks for in the message of the ValueError:
\* "Coluna obrigatória não encontrada"
COLUNA_OBRIGATORIA ==
    <<"C","o","l","u","n","a"," ","o","b","r","i","g","a","t","ó","r","i","a",
      " ","n","ã","o"," ","e","n","c","o","n","t","r","a","d","a">>

\* str(e) of the ValueError that leaves read_currency_pairs(): the prefix
\* "Erro ao ler pares de moedas: " before the message of the exception caught,
\* which is "Erro no formato do arquivo: Arquivo precisa ter pelo menos duas
\* colunas" for a sheet of one column and the message of pd.read_excel or
\* to_excel otherwise ("File is not a zip file")
ReadError(inp) ==
    LET make    == ~inp.root /\ ~inp.exists
        prefix  == <<"E","r","r","o"," ","a","o"," ","l","e","r"," ","p","a",
                     "r","e","s"," ","d","e"," ","m","o","e","d","a","s",":",
                     " ">>
        format  == <<"E","r","r","o"," ","n","o"," ","f","o","r","m","a","t",
                     "o"," ","d","o"," ","a","r","q","u","i","v","o",":"," ",
                     "A","r","q","u","i","v","o"," ","p","r","e","c","i","s",
                     "a"," ","t","e","r"," ","p","e","l","o"," ","m","e","n",
                     "o","s"," ","d","u","a","s"," ","c","o","l","u","n","a",
                     "s">>
        io      == <<"F","i","l","e"," ","i","s"," ","n","o","t"," ","a"," ",
                     "z","i","p"," ","f","i","l","e">>
    IN  IF ~make /\ inp.readable /\ inp.columns = "one"
        THEN prefix \o format
        ELSE prefix \o io

\* the inner try of run(): read_currency_pairs(); on a ValueError whose
\* message contains "Coluna obrigatória não encontrada",
\* create_sample_input_file(force=True) and read_currency_pairs() again; any
\* other ValueError is raised again.  recreated: the sample was written over
\* the file of input_dir.  The second read takes ./currencies.xlsx again when
\* it exists.
RunReadPairs(inp) ==
    LET first == ReadCurrencyPairs(inp)
        again == ReadCurrencyPairs([inp EXCEPT !.exists = TRUE,
                                               !.readable = TRUE,
                                               !.columns = "pt",
                                               !.rows = SampleRows])
    IN  IF ~first.raised
        THEN [raised |-> FALSE, pairs |-> first.pairs, recreated |-> FALSE]
        ELSE IF ~Contains(ReadError(inp), COLUNA_OBRIGATORIA)
        THEN [raised |-> TRUE, pairs |-> <<>>, recreated |-> FALSE]
        ELSE IF inp.create = "raise"
        THEN [raised |-> TRUE, pairs |-> <<>>, recreated |-> FALSE]
        ELSE IF inp.root
        THEN [raised |-> first.raised, pairs |-> first.pairs,
              recreated |-> TRUE]
        ELSE [raised |-> again.raised, pairs |-> again.pairs,
              recreated |-> TRUE]

\* Python: text.upper()
Upper(text) ==
    [i \in 1..Len(text) |->
        IF \E k \in 1..Len(LowerCase) : LowerCase[k] = text[i]
        THEN UpperCase[CHOOSE k \in 1..Len(LowerCase) : LowerCase[k] = text[i]]
        ELSE text[i]]

\* Python: text.strip()
Strip(text) ==
    LET inked == {i \in 1..Len(text) : text[i] # " "}
    IN  IF inked = {}
        THEN <<>>
        ELSE SubSeq(text, CHOOSE i \in inked : \A j \in inked : i <= j,
                          CHOOSE i \in inked : \A j \in inked : i >= j)

\* the rows of which both cleaned cells have three characters, as pairs
RECURSIVE KeptPairs(_, _)
KeptPairs(rows, i) ==
    IF i > Len(rows)
    THEN <<>>
    ELSE LET from_curr == Upper(Strip(rows[i][1]))
             to_curr   == Upper(Strip(rows[i][2]))
         IN  (IF Len(from_curr) = 3 /\ Len(to_curr) = 3
              THEN <<CurrencyPair(from_curr, to_curr)>>
              ELSE <<>>) \o KeptPairs(rows, i + 1)

\* MoedasSpider._load_currency_pairs(): only the file of input_dir is looked
\* at; the columns are found by keyword ("pt": origem/destino, "en":
\* from/to); a missing file, a failed read and an empty list give the default
LoadCurrencyPairs(inp) ==
    LET DefaultPairs ==
            <<CurrencyPair(<<"U","S","D">>, <<"B","R","L">>),
              CurrencyPair(<<"E","U","R">>, <<"B","R","L">>)>>
        pairs == IF inp.columns \in {"pt", "en"}
                 THEN KeptPairs(inp.rows, 1)
                 ELSE <<>>
    IN  [raised |-> FALSE,
         pairs |-> IF ~inp.exists \/ ~inp.readable \/ pairs = <<>>
                   THEN DefaultPairs
                   ELSE pairs,
         created |-> FALSE]

-----------------------------------------------------------------------------
(* One step applied to one input (SpecSteps) *)

\* what a step can meet, by the kind of step
StepInputs ==
    LET Items    == [state : {"shown", "hidden", "stale"}, text : {TRUE}]
        Listed   == Items \cup {[state |-> "hidden", text |-> FALSE]}
        select   == [kind   : {"select"},
                     button : {"ok"},
                     reopen : {"ok", "raise"},
                     found  : [1..3 -> SeqsOf(Items, 0, 1)],
                     all    : SeqsOf(Listed, 0, MaxElements)]
                    \cup
                    [kind   : {"select"},
                     button : {"raise"},
                     reopen : {"ok"},
                     found  : {[k \in 1..3 |-> <<>>]},
                     all    : {<<>>}]
        Cookie   == {"none", "hidden", "raise", "stale", "click", "js",
                     "actions", "no_click"}
        banners  == [kind    : {"banners"},
                     driver  : {Held},
                     cookie  : {q \in [1..NumCookieSelectors -> Cookie] :
                                  Cardinality({i \in DOMAIN q :
                                                 q[i] # "none"}) <= 2},
                     generic : {"none", "click", "raise"}]
                    \cup
                    [kind    : {"banners"},
                     driver  : {NoDriver},
                     cookie  : {[i \in 1..NumCookieSelectors |-> "raise"]},
                     generic : {"raise"}]
        cookie   == [kind   : {"cookie"},
                     driver : {Held, NoDriver},
                     script : {"ok", "raise"}]
        form     == [kind          : {"form"},
                     pair          : {CurrencyPair("USD", "BRL")},
                     requested     : RequestedDates,
                     selects       : {"ok", "from_fails", "to_fails"},
                     date_input    : {"shown", "none", "raise"},
                     date_write    : {"ok", "raise"},
                     date_script   : {"ok", "raise"},
                     button        : {"shown", "none"},
                     click         : {"click", "js", "actions", "no_click"},
                     submit_script : {"clicked", "nothing", "raise"},
                     extracted     : {<<5123, Today>>, <<5123, Today - 1>>,
                                      <<0, Today>>}]
        Write    == {"ok", "perm", "other"}
        files    == [kind     : {"write"},
                     mkdir    : Write,
                     out      : Write,
                     main     : Write,
                     alt_out  : Write,
                     alt_main : Write,
                     temp     : Write]
        Rows     == {<<<<"U","S","D">>, <<"B","R","L">>>>,
                     <<<<" ","u","s","d"," ">>, <<"b","r","l">>>>,
                     <<<<"E","u","r","o">>, <<"B","R","L">>>>}
        sheet    == [kind     : {"sheet"},
                     root     : BOOLEAN,
                     exists   : BOOLEAN,
                     create   : {"ok", "raise"},
                     readable : BOOLEAN,
                     columns  : {"pt", "en", "two", "one"},
                     rows     : SeqsOf(Rows, 0, 2)]
        api      == [kind     : {"api"},
                     pair     : {CurrencyPair("USD", "BRL"),
                                 CurrencyPair("EUR", "USD"),
                                 CurrencyPair("BRL", "USD"),
                                 CurrencyPair("ARS", "BRL")},
                     response : ApiResponses]
        strategy == [kind : {"strategy"},
                     key  : {"form", "direct", "js"},
                     pair : {CurrencyPair("USD", "BRL")},
                     left : AdvPages,
                     drv  : {NoDriver, Held},
                     env  : JsEnvs]
        result   == [kind : {"result"},
                     page : {p \in Pages :
                               \A k \in 1..NumResultSelectors :
                                  p.selRates[k] = NoMatch}]
    IN  select \cup banners \cup cookie \cup form \cup files \cup sheet
          \cup api \cup strategy \cup result

InitSteps ==
    /\ BcbIdle
    /\ SpiderIdle
    /\ ParserIdle
    /\ TwiceIdle
    /\ ScrapyIdle
    /\ st_pc = "input"
    /\ st_in \in StepInputs
    /\ st_out = <<>>

\* the step `name` is applied to an input of its kind and hands back `out`
ApplyStep(kind, name, out) ==
    /\ st_pc = "input"
    /\ st_in.kind = kind
    /\ st_out' = out
    /\ st_pc' = name
    /\ UNCHANGED <<st_in, bcbVars, spVars, prVars, twVars, scVars>>

SelectCurrencyStep ==
    ApplyStep("select", "select", SelectCurrency(st_in))

CloseBannersStep ==
    ApplyStep("banners", "banners", CloseBanners(st_in))

CloseCookieBannerStep ==
    ApplyStep("cookie", "cookie", CloseCookieBanner(st_in))

FormFlowStep ==
    ApplyStep("form", "form", FormFlow(st_in))

WriteStep ==
    ApplyStep("write", "write", WriteExchangeRates(st_in))

ReadStep ==
    ApplyStep("sheet", "read", ReadCurrencyPairs(st_in))

LoadStep ==
    ApplyStep("sheet", "load", LoadCurrencyPairs(st_in))

ApiStep ==
    ApplyStep("api", "api", GetRateViaApi(st_in.pair, st_in.response))

StrategyStep ==
    ApplyStep("strategy", "strategy",
              StrategyInSession(st_in.key, st_in.pair, st_in.left, st_in.drv,
                                st_in.env))

RunStep ==
    ApplyStep("sheet", "run", RunReadPairs(st_in))

ExtractStep ==
    ApplyStep("result", "result", ExtractResult(st_in.page))

NextSteps ==
    \/ SelectCurrencyStep
    \/ CloseBannersStep
    \/ CloseCookieBannerStep
    \/ FormFlowStep
    \/ WriteStep
    \/ ReadStep
    \/ LoadStep
    \/ ApiStep
    \/ StrategyStep
    \/ RunStep
    \/ ExtractStep

SpecSteps ==
    InitSteps /\ [][NextSteps]_vars

-----------------------------------------------------------------------------
(* The form-request spider: scrapy/moedas_spider.py *)

\* MoedasSpider(currency_pairs): `currency_pairs or []`, index 0
InitScrapy ==
    /\ BcbIdle
    /\ SpiderIdle
    /\ ParserIdle
    /\ StepsIdle
    /\ TwiceIdle
    /\ sc_pc = "new"
    /\ sc_currency_pairs \in PairLists
    /\ current_pair_index = 0
    /\ sc_scheduled = <<>>
    /\ sc_requests = <<>>
    /\ sc_items = 0

\* scrapy.Spider.start_requests: one request of start_urls[0], callback parse
StartRequests ==
    /\ sc_pc = "new"
    /\ sc_pc' = "crawling"
    /\ sc_scheduled' = <<"parse">>
    /\ sc_requests' = <<[callback |-> "parse", formdata |-> <<>>]>>
    /\ UNCHANGED <<sc_currency_pairs, current_pair_index, sc_items, bcbVars,
                   spVars, prVars, stVars, twVars>>

\* parse(response) on the response of a request whose callback is parse;
\* has_form: the response holds a form, otherwise FormRequest.from_response
\* raises ValueError, after the index was incremented, and the generator
\* yields nothing
ScrapyParse ==
    /\ sc_pc = "crawling"
    /\ sc_scheduled # <<>>
    /\ Head(sc_scheduled) = "parse"
    /\ IF sc_currency_pairs = <<>>
          \/ current_pair_index >= Len(sc_currency_pairs)
       THEN /\ sc_scheduled' = Tail(sc_scheduled)
            /\ UNCHANGED <<current_pair_index, sc_requests>>
       ELSE LET current_pair == sc_currency_pairs[current_pair_index + 1]
            IN  /\ current_pair_index' = current_pair_index + 1
                /\ \E has_form \in BOOLEAN :
                      IF has_form
                      THEN /\ sc_scheduled' = Append(Tail(sc_scheduled),
                                                     "parse_result")
                           /\ sc_requests' =
                                Append(sc_requests,
                                       [callback |-> "parse_result",
                                        formdata |-> current_pair])
                      ELSE /\ sc_scheduled' = Tail(sc_scheduled)
                           /\ sc_requests' = sc_requests
    /\ UNCHANGED <<sc_pc, sc_currency_pairs, sc_items, bcbVars, spVars,
                   prVars, stVars, twVars>>

\* parse_result(response) on the response of a form request: a request of
\* start_urls[0] if a pair is left, then the result
ScrapyParseResult ==
    /\ sc_pc = "crawling"
    /\ sc_scheduled # <<>>
    /\ Head(sc_scheduled) = "parse_result"
    /\ IF current_pair_index < Len(sc_currency_pairs)
       THEN /\ sc_scheduled' = Append(Tail(sc_scheduled), "parse")
            /\ sc_requests' = Append(sc_requests,
                                     [callback |-> "parse",
                                      formdata |-> <<>>])
       ELSE /\ sc_scheduled' = Tail(sc_scheduled)
            /\ sc_requests' = sc_requests
    /\ sc_items' = sc_items + 1
    /\ UNCHANGED <<sc_pc, sc_currency_pairs, current_pair_index, bcbVars,
                   spVars, prVars, stVars, twVars>>

\* the download of a request fails: no errback is set, no callback runs
RequestFails ==
    /\ sc_pc = "crawling"
    /\ sc_scheduled # <<>>
    /\ sc_scheduled' = Tail(sc_scheduled)
    /\ UNCHANGED <<sc_pc, sc_currency_pairs, current_pair_index, sc_requests,
                   sc_items, bcbVars, spVars, prVars, stVars, twVars>>

NextScrapy ==
    \/ StartRequests
    \/ ScrapyParse
    \/ ScrapyParseResult
    \/ RequestFails

SpecScrapy ==
    InitScrapy /\ [][NextScrapy]_vars

-----------------------------------------------------------------------------
(* Properties of BCBAutomation.extract_all_exchange_rates (Spec) *)

\* the status is "Erro: " followed by a message
IsErrorStatus(status) ==
    /\ Len(status) >= Len(ERRO_PREFIX)
    /\ SubSeq(status, 1, Len(ERRO_PREFIX)) = ERRO_PREFIX

\* C1: the loop has appended exactly one record per pair taken, the i-th
\* record carries the currencies of the i-th pair, and a run that returns
\* returns as many records as it was given pairs, whatever happened to each
\* pair (rate found, rate zero, exception caught inside get_exchange_rate or
\* leaving it).
C1_OneRecordPerPairInOrder ==
    /\ Len(results) = idx
    /\ idx <= Len(currency_pairs)
    /\ \A i \in 1..Len(results) :
          /\ results[i].from_currency = currency_pairs[i].from_currency
          /\ results[i].to_currency = currency_pairs[i].to_currency
    /\ outcome = "returned" => Len(results) = Len(currency_pairs)

\* a returned run over two different pairs, one ended by an exception that
\* left get_exchange_rate, one by a caught exception or a found rate
C1_Witness ==
    /\ outcome = "returned"
    /\ Len(results) >= 2
    /\ currency_pairs[1] # currency_pairs[2]
    /\ \E i \in 1..Len(hist) : hist[i].escaped
    /\ \E i \in 1..Len(hist) : ~hist[i].escaped

\* C2 as stated: when extract_all_exchange_rates has ended, however the loop
\* ended, driver.quit has been invoked exactly once.
C2_QuitExactlyOnce ==
    pc = "done" => quit_calls = 1

\* C2 amended: when extract_all_exchange_rates has ended, however the loop
\* ended, close_driver has been called exactly once, and driver.quit has been
\* invoked exactly once if the run acquired a session and not at all if it
\* acquired none.
C2_ClosedOnceQuitIffSession ==
    pc = "done" =>
        /\ close_calls = 1
        /\ quit_calls = (IF sessions > 0 THEN 1 ELSE 0)

\* an exception left the loop after a pair was processed with a session, and
\* the session was quit once
C2_Witness ==
    /\ pc = "done"
    /\ outcome = "raised"
    /\ Len(results) >= 1
    /\ sessions = 1
    /\ quit_calls = 1

\* C3: a pair whose processing ends with an exception is recorded with rate
\* 0, the requested date and the status "Erro: " followed by the message of
\* the exception; the records made before stay as they are and the loop goes
\* on with the next pair.
C3_PartialFailureIsolation ==
    [][(pc = "loop" /\ idx' = idx + 1 /\ hist'[idx'].error # NoError)
         => /\ pc' = "loop"
            /\ Len(results') = idx'
            /\ results'[idx'] =
                 [from_currency |-> currency_pairs[idx'].from_currency,
                  to_currency   |-> currency_pairs[idx'].to_currency,
                  rate_value    |-> 0,
                  rate_date     |-> rate_date,
                  status        |-> ERRO_PREFIX \o hist'[idx'].error]
            /\ SubSeq(results', 1, idx) = results]_vars

\* pair 1 ended with a timeout; pair 2 was processed afterwards and its rate
\* was found
C3_Witness ==
    /\ Len(results) >= 2
    /\ hist[1].error = MSG_TIMEOUT
    /\ results[1].status = ERRO_PREFIX \o MSG_TIMEOUT
    /\ results[2].rate_value > 0

\* C4: every record is in exactly one terminal state: OK iff a rate > 0 was
\* extracted with the requested date, DATE_MISMATCH iff a rate > 0 was
\* extracted with another date (the record keeps the extracted rate and
\* date), NOT_FOUND iff rate 0 was extracted, ERROR iff an exception reached
\* the except clause of get_exchange_rate or left get_exchange_rate.
C4_TerminalStateRules ==
    \A i \in 1..Len(results) :
        LET r    == results[i]
            exc  == hist[i].error # NoError
            rate == hist[i].extracted[1]
            day  == hist[i].extracted[2]
        IN  /\ (r.status = STATUS_OK)
                  <=> (~exc /\ rate > 0 /\ day = rate_date)
            /\ (r.status = STATUS_DATE_MISMATCH)
                  <=> (~exc /\ rate > 0 /\ day # rate_date)
            /\ r.status = STATUS_DATE_MISMATCH
                  => (r.rate_value = rate /\ r.rate_date = day)
            /\ (r.status = STATUS_NOT_FOUND) <=> (~exc /\ rate = 0)
            /\ IsErrorStatus(r.status) <=> exc
            /\ Cardinality({k \in 1..4 :
                    \/ k = 1 /\ r.status = STATUS_OK
                    \/ k = 2 /\ r.status = STATUS_DATE_MISMATCH
                    \/ k = 3 /\ r.status = STATUS_NOT_FOUND
                    \/ k = 4 /\ IsErrorStatus(r.status)}) = 1

\* a stale quote (rate 5.123 dated another day than requested) next to a
\* pair that ended OK
C4_Witness ==
    /\ \E i \in 1..Len(results) :
          /\ results[i].status = STATUS_DATE_MISMATCH
          /\ results[i].rate_value = 5123
          /\ results[i].rate_date # rate_date
    /\ \E i \in 1..Len(results) : results[i].status = STATUS_OK

\* C10 as stated: once setup_driver has raised, the run is over and has ended
\* with an exception.
C10_SetupFailureAbortsRun ==
    (\E i \in 1..Len(hist) : hist[i].cause = "setup") => outcome = "raised"

\* C12 as stated: a second call of close_driver, made by the caller's cleanup
\* after the one of extract_all_exchange_rates, has no further effect:
\* driver.quit is not invoked again and self.driver does not change.
C12_SecondCloseHasNoEffect ==
    [][(pc = "done" /\ pc' = "asset_done")
         => (quit_calls' = quit_calls /\ driver' = driver)]_vars

\* C13: no exception leaves close_driver, so a failing driver.quit in the
\* finally clause never takes the place of the run's ending: a run whose loop
\* was exhausted returns its complete result list, and a run an exception
\* ended still ends with that exception.
C13_ReleaseNeverMasksResult ==
    /\ outcome # "cleanup_raised"
    /\ (pc \in {"done", "asset_done"} /\ idx = Len(currency_pairs))
          => (outcome = "returned" /\ Len(results) = Len(currency_pairs))
    /\ (pc \in {"done", "asset_done"} /\ idx < Len(currency_pairs))
          => outcome = "raised"

\* driver.quit raised in the finally clause and the caller still got the
\* list, with the rate found for the first pair
C13_Witness ==
    /\ pc = "done"
    /\ quit_failures = 1
    /\ outcome = "returned"
    /\ Len(results) >= 1
    /\ results[1].rate_value > 0

\* number of records of the list whose status passes Test
CountRecords(rates, Test(_)) ==
    Cardinality({i \in 1..Len(rates) : Test(rates[i].status)})

\* C27: when the pair list has been processed, the summary holds one count
\* per terminal state and each count equals the number of records that
\* ended in that state: the count of OK is the number of OK records, the
\* count of warnings the number of DATE_MISMATCH records, and the count of
\* errors the number of ERROR records, the NOT_FOUND records being counted
\* apart.
C27_SummaryCountsPerState ==
    outcome = "returned" =>
        /\ success_count = CountRecords(results, LAMBDA st : st = STATUS_OK)
        /\ warning_count =
              CountRecords(results, LAMBDA st : st = STATUS_DATE_MISMATCH)
        /\ error_count = CountRecords(results, IsErrorStatus)

\* C37: after each pair the three counters sum to the number of records
\* appended so far, each pair having incremented exactly one counter by one;
\* when the run returns they sum to the number of input pairs.
C37_CountersSumToRecords ==
    /\ [](/\ success_count + warning_count + error_count = Len(results)
          /\ outcome = "returned" =>
                success_count + warning_count + error_count
                  = Len(currency_pairs))
    /\ [][idx' = idx + 1 =>
            Cardinality({k \in 1..3 :
                <<success_count', warning_count', error_count'>>[k]
                  = <<success_count, warning_count, error_count>>[k] + 1}) = 1]_vars

\* a returned run over two pairs, one counted as a warning (stale quote) and
\* one as an error
C37_Witness ==
    /\ outcome = "returned"
    /\ Len(results) = 2
    /\ warning_count = 1
    /\ error_count = 1

\* C38: the stats of analyze_exchange_rates partition the table of a
\* returned run: cotacoes_ok + cotacoes_data_diferente + cotacoes_erro is
\* total_cotacoes.
C38_StatsPartitionResults ==
    (outcome = "returned" /\ results # <<>>) =>
        LET stats == AnalyzeExchangeRates(results)
        IN  stats.cotacoes_ok + stats.cotacoes_data_diferente
              + stats.cotacoes_erro = stats.total_cotacoes

-----------------------------------------------------------------------------
(* Properties of two runs on one object (SpecTwice) *)

-----------------------------------------------------------------------------
(* Properties of MoedasSpider.parse (SpecSpider) *)

\* the record parse appended for the last pair
LastRate ==
    sp_results[sp_idx]

\* the calls of strategies 1-3 made for the last pair
StrategyCalls ==
    SelectSeq(sp_calls, LAMBDA c : c.name # "api")

\* the calls of _get_rate_via_api made for the last pair
ApiCalls ==
    SelectSeq(sp_calls, LAMBDA c : c.name = "api")

\* the call returned a rate > 0
Reported(c) ==
    ~c.raised /\ c.result[1] > 0

\* "Strategy N failed: ", the prefix the strategy puts on its exception
FailureLabel(key) ==
    CASE key = "form"   -> STRATEGY_1_FAILED
      [] key = "direct" -> STRATEGY_2_FAILED
      [] key = "js"     -> STRATEGY_3_FAILED

\* C5 as stated: when the three strategies returned rate 0 with "Valor não
\* encontrado" without raising, and the API gave no rate, the record of the
\* pair has rate 0 and the status "Valor não encontrado".
C5_AllZeroIsNotFound ==
    (/\ sp_idx > 0
     /\ Len(StrategyCalls) = 3
     /\ \A k \in 1..3 : /\ ~StrategyCalls[k].raised
                        /\ StrategyCalls[k].result[1] = 0
                        /\ StrategyCalls[k].result[3] = STATUS_NOT_FOUND
     /\ \A k \in 1..Len(ApiCalls) : ApiCalls[k].result[1] = 0)
    => (LastRate.rate_value = 0 /\ LastRate.status = STATUS_NOT_FOUND)

\* C6: the strategies called for a pair are an initial part of form
\* submission, direct navigation, script injection; none called before the
\* last one reported a rate > 0; if the last one did, the pair's record is
\* exactly its (rate, date, status); if it did not, all three were called.
C6_FirstSuccessWins ==
    sp_idx > 0 =>
        LET sc == StrategyCalls
            n  == Len(sc)
        IN  /\ n \in 1..3
            /\ \A k \in 1..n : sc[k].name = <<"form", "direct", "js">>[k]
            /\ \A k \in 1..(n - 1) : ~Reported(sc[k])
            /\ Reported(sc[n])
                 => /\ LastRate.rate_value = sc[n].result[1]
                    /\ LastRate.rate_date = sc[n].result[2]
                    /\ LastRate.status = sc[n].result[3]
            /\ ~Reported(sc[n]) => n = 3

\* strategy 1 raised, strategy 2 returned 5.123: the record is strategy 2's
\* and strategy 3 was not called
C6_Witness ==
    /\ sp_idx > 0
    /\ Len(StrategyCalls) = 2
    /\ StrategyCalls[1].raised
    /\ Reported(StrategyCalls[2])
    /\ LastRate.rate_value = 5123
    /\ LastRate.status = SUCESSO

\* C7: for each pair _get_rate_via_api is called exactly once if none of
\* strategies 1-3 reported a rate > 0, and not at all if one did.
C7_ApiFallbackExactlyOnce ==
    sp_idx > 0 =>
        LET won == \E k \in 1..Len(StrategyCalls) : Reported(StrategyCalls[k])
        IN  /\ won => Len(ApiCalls) = 0
            /\ ~won => (Len(ApiCalls) = 1 /\ Len(StrategyCalls) = 3)

\* the three strategies failed and the one API call gave the pair's rate
C7_Witness ==
    /\ sp_idx > 0
    /\ Len(StrategyCalls) = 3
    /\ Len(ApiCalls) = 1
    /\ LastRate.status = SUCESSO_API
    /\ LastRate.rate_value = 5400

\* C8: no exception of a strategy or of the API call leaves the iteration of
\* parse: parse never stops on one, and every pair taken has its record.
C8_NoStrategyExceptionEscapes ==
    /\ sp_pc # "crashed"
    /\ Len(sp_results) = sp_idx

\* the three strategies raised, the request of the API call raised too, and
\* the pair still has its record
C8_Witness ==
    /\ sp_idx > 0
    /\ Len(StrategyCalls) = 3
    /\ \A k \in 1..3 : StrategyCalls[k].raised
    /\ Len(ApiCalls) = 1
    /\ ApiCalls[1].result[3] = ERRO_API_PREFIX \o MSG_CONNECTION
    /\ LastRate.rate_value = 0

\* C9 as stated: when strategies raised and the pair ends with rate 0, the
\* status of its record names one of the strategies that failed (by the name
\* of the strategy list or by the "Strategy N failed" label).
C9_FailureNamesStrategy ==
    (/\ sp_idx > 0
     /\ LastRate.rate_value = 0
     /\ \E k \in 1..Len(StrategyCalls) : StrategyCalls[k].raised)
    => \E k \in 1..Len(StrategyCalls) :
          /\ StrategyCalls[k].raised
          /\ \/ Contains(LastRate.status, StrategyName(StrategyCalls[k].name))
             \/ Contains(LastRate.status, FailureLabel(StrategyCalls[k].name))

\* C11 as stated: at every point of a run at most one browser is live.
C11_AtMostOneLiveBrowser ==
    sp_live <= 1

-----------------------------------------------------------------------------
(* Properties of the parsers (SpecParser) *)

\* the sequences of a sequence, one after the other
RECURSIVE Flatten(_)
Flatten(seqs) ==
    IF seqs = <<>> THEN <<>> ELSE Head(seqs) \o Flatten(Tail(seqs))

\* the first element of a sequence that satisfies Test, `none` without one
FirstThat(seq, Test(_), none) ==
    LET hits == {i \in 1..Len(seq) : Test(seq[i])}
    IN  IF hits = {}
        THEN none
        ELSE seq[CHOOSE i \in hits : \A j \in hits : i <= j]

\* the band of _extract_result_advanced: 0.1 to 50.0 (3.0 to 10.0 lies in it)
InBand(value) ==
    100 <= value /\ value <= 50000

\* a status that reports a rate as found
IsFoundStatus(status) ==
    status \in {STATUS_OK, STATUS_DATE_MISMATCH, SUCESSO,
                SUCESSO_DATA_DIFERENTE, SUCESSO_JS}

\* 1234.56 written in the three styles: "1234.56", "1.234,56", "1234,56"
Written1234_56 ==
    {<<"1","2","3","4",".","5","6">>,
     <<"1",".","2","3","4",",","5","6">>,
     <<"1","2","3","4",",","5","6">>}

\* C14 as stated: the rate _extract_result_advanced returns is the first
\* normalized value, in pattern order and then match order, that lies inside
\* the band (0 when there is none); no later match replaces it.
C14_FirstAcceptedRateWins ==
    (pr_pc = "adv" /\ pr_page.wait = "ok") =>
        LET groups == [i \in 1..Len(Flatten(pr_page.rates)) |->
                          AdvValue(FirstNumber(Flatten(pr_page.rates)[i]))]
        IN  pr_out.rate = FirstThat(groups, InBand, 0)

\* C15 as stated: no parser reports as found a rate outside the plausibility
\* band, taken at its widest (0.01 to 1000).
C15_OutOfBandNeverReported ==
    (pr_pc \in {"bcb", "adv", "js"}
       /\ pr_out.rate > 0 /\ IsFoundStatus(pr_out.status))
    => (10 <= pr_out.rate /\ pr_out.rate <= 1000000)

\* C16 as stated: 1234.56 written in each of the three styles is read back
\* as 1234.56, by _extract_result from the page and by the normalization of
\* _extract_result_advanced.
C16_NormalizationRoundTrip ==
    (pr_page.readable /\ pr_page.conv \in Written1234_56) =>
        /\ pr_pc = "bcb" => pr_out.rate = 1234560
        /\ pr_pc = "adv" => AdvValue(pr_page.conv) = 1234560

\* C17 as stated: a page whose only date is two days before the target date
\* gives that date, in whichever of the three formats it is written.
C17_ThreeDateFormats ==
    \A k \in 1..3 :
        (/\ pr_pc = "adv"
         /\ pr_page.wait = "ok"
         /\ pr_page.dates = [j \in 1..3 |->
                IF j = k
                THEN <<DateText(TargetDate - 2, DateFormats[k])>>
                ELSE <<>>])
        => pr_out.date = TargetDate - 2

\* C18 as stated: the date _extract_result_advanced returns is the first
\* candidate, in pattern order and then match order, that parses to a date
\* within 7 days of the target date, also when it is the target date itself
\* (the target date when there is none).
C18_FirstDateInWindowWins ==
    (pr_pc = "adv" /\ pr_page.wait = "ok") =>
        LET texts  == Flatten(pr_page.dates)
            parsed == [i \in 1..Len(texts) |-> ParsedDate(texts[i])]
            Near(d) == d # NoMatch /\ d - TargetDate <= 7
                         /\ TargetDate - d <= 7
        IN  pr_out.date = FirstThat(parsed, Near, TargetDate)

\* C19 as stated: a page that carries no date is given the requested date,
\* so a rate found on it is classified OK.
C19_NoDateMeansRequestedDate ==
    /\ (pr_pc = "bcb" /\ pr_page.readable /\ pr_page.dateUsed = NoText)
         => /\ pr_out.date = pr_requested
            /\ pr_out.rate > 0 => pr_out.status = STATUS_OK
    /\ (pr_pc = "adv" /\ pr_page.wait = "ok"
          /\ Flatten(pr_page.dates) = <<>>)
         => /\ pr_out.date = TargetDate
            /\ pr_out.rate > 0 => pr_out.status = SUCESSO

\* C20: _extract_result and _extract_result_advanced always hand back a
\* value, never an exception; the rate is 0 when the page could not be read
\* or the wait failed, and when no pattern gave a number.
C20_ParserNeverRaises ==
    /\ pr_pc \in {"bcb", "adv"} => (~pr_out.raised /\ pr_out.rate >= 0)
    /\ (pr_pc = "bcb"
          /\ (\/ ~pr_page.readable
              \/ (BcbValue(pr_page.conv) = NoMatch
                    /\ BcbValue(pr_page.tax) = NoMatch)))
         => pr_out.rate = 0
    /\ (pr_pc = "adv"
          /\ (pr_page.wait # "ok" \/ Flatten(pr_page.rates) = <<>>))
         => pr_out.rate = 0

\* a page that shows 5,123 could not be read by _extract_result, which
\* handed back rate 0 dated today
C20_Witness ==
    /\ pr_pc = "bcb"
    /\ ~pr_page.readable
    /\ pr_page.conv # NoText
    /\ pr_out = Output(FALSE, 0, Today, STATUS_NOT_FOUND)

-----------------------------------------------------------------------------
(* Properties of the steps (SpecSteps) *)

\* C21: in the form flow of get_exchange_rate, when no submit control is
\* found visible the call fails: result extraction is not reached and the
\* record handed back is an error record.
C21_NoSubmitControlFails ==
    (st_pc = "form" /\ st_out.submit # "unreached" /\ st_in.button = "none")
        => /\ ~st_out.extracted
           /\ IsErrorStatus(st_out.call.rate.status)

\* C22: the option _select_currency clicks is a displayed element whose text
\* contains the label, and no element before it in the order of the selector
\* strategies (the three item selectors, then the list of all dropdown items)
\* is displayed and contains the label.
C22_ClickedOptionIsFirstVisible ==
    (st_pc = "select" /\ st_out.clicked # <<0, 0>>) =>
        LET lists == <<st_in.found[1], st_in.found[2], st_in.found[3],
                       st_in.all>>
            k == st_out.clicked[1]
            j == st_out.clicked[2]
            Match(it) == it.state = "shown" /\ it.text
        IN  /\ Match(lists[k][j])
            /\ \A k2 \in 1..k : \A j2 \in 1..Len(lists[k2]) :
                  (k2 < k \/ j2 < j) => ~Match(lists[k2][j2])

\* C23: an exception raised while the date input is located or written is
\* absorbed: the submit step and the extraction still run, the call returns,
\* and its record is not an error record.
C23_DateFailureIsNotFatal ==
    (st_pc = "form" /\ st_out.date_error) =>
        /\ st_out.submit # "unreached"
        /\ st_out.extracted
        /\ st_out.call.raised = NoError
        /\ ~IsErrorStatus(st_out.call.rate.status)

\* writing the displayed date input raised, the button was clicked and the
\* pair ended with "Consulta ok"
C23_Witness ==
    /\ st_pc = "form"
    /\ st_out.date_error
    /\ st_in.date_input = "shown"
    /\ st_out.submit = "button"
    /\ st_out.call.rate.status = STATUS_OK

\* C24: _close_banners and _close_cookie_banner return normally whatever
\* element lookup, visibility check or click fails.
C24_DismissOverlaysNeverRaises ==
    st_pc \in {"banners", "cookie"} => ~st_out.raised

\* a cookie button on which all three clicks raised, generic selectors whose
\* lookup raised, and nothing clicked
C24_Witness ==
    /\ st_pc = "banners"
    /\ \E i \in 1..NumCookieSelectors : st_in.cookie[i] = "no_click"
    /\ st_in.generic = "raise"
    /\ st_out.clicks = 0
    /\ ~st_out.raised

\* C25: a permission failure of the primary write is retried once under the
\* alternate filename; if that retry fails too, one attempt is made in the
\* temporary directory, and write_exchange_rates fails only if that attempt
\* fails as well.
C25_WriteFallbackOrder ==
    (/\ st_pc = "write"
     /\ st_in.mkdir = "ok"
     /\ \/ st_in.out = "perm"
        \/ st_in.out = "ok" /\ st_in.main = "perm")
        => LET tried(w) == \E i \in 1..Len(st_out.writes) :
                              st_out.writes[i] = w
               altFailed == st_in.alt_out # "ok" \/ st_in.alt_main # "ok"
           IN  /\ tried("alt_out")
               /\ ~altFailed => st_out.raised = "none"
               /\ altFailed =>
                    /\ tried("temp")
                    /\ (st_out.raised # "none") <=> (st_in.temp # "ok")

\* C26: the only exception that leaves write_exchange_rates is the ValueError
\* 'Falha ao salvar arquivo Excel', and it does whenever no path was written.
C26_OnlyFatalSaveErrorEscapes ==
    st_pc = "write" =>
        /\ st_out.raised \in {"none", "ValueError"}
        /\ st_out.path = "none" => st_out.raised = "ValueError"

\* an uppercase 3-letter code
IsCode(text) ==
    /\ Len(text) = 3
    /\ \A i \in 1..3 : \E k \in 1..Len(UpperCase) : UpperCase[k] = text[i]

\* C29: both codes of every pair read from the input file are uppercase
\* 3-letter codes, in read_currency_pairs and in _load_currency_pairs,
\* whatever the case and the surrounding whitespace of the cells.
C29_PairsAreUppercaseCodes ==
    st_pc \in {"read", "load"} =>
        \A i \in 1..Len(st_out.pairs) :
            /\ IsCode(st_out.pairs[i].from_currency)
            /\ IsCode(st_out.pairs[i].to_currency)

\* C30: when the input file is missing or cannot be read, and the sample can
\* be written, read_currency_pairs does not fail and returns the 5 pairs of
\* the sample.
C30_MissingOrUnreadableGivesSample ==
    (/\ st_pc = "read"
     /\ st_in.create = "ok"
     /\ \/ ~st_in.root /\ ~st_in.exists
        \/ ~st_in.readable)
        => /\ ~st_out.raised
           /\ st_out.pairs = [i \in 1..Len(SampleRows) |->
                                 CurrencyPair(SampleRows[i][1],
                                              SampleRows[i][2])]

-----------------------------------------------------------------------------
(* Properties of the records of both orchestrators (SpecOrchestrators) *)

\* C36: in every record of either orchestrator rate_value is >= 0, and it is
\* positive exactly when the status is a success status: 'Consulta ok' or the
\* date mismatch in BCBAutomation, a status with 'Sucesso' in the spider.
C36_PositiveRateIffSuccess ==
    /\ \A i \in 1..Len(results) :
          /\ results[i].rate_value >= 0
          /\ results[i].rate_value > 0
                <=> results[i].status \in {STATUS_OK, STATUS_DATE_MISMATCH}
    /\ \A i \in 1..Len(sp_results) :
          /\ sp_results[i].rate_value >= 0
          /\ sp_results[i].rate_value > 0
                <=> Contains(sp_results[i].status, SUCESSO)

\* the spider has appended a record with a rate and one without
C36_Witness ==
    /\ \E i \in 1..Len(sp_results) : sp_results[i].rate_value > 0
    /\ \E i \in 1..Len(sp_results) :
          /\ sp_results[i].rate_value = 0
          /\ sp_results[i].status = ERRO_TODAS

-----------------------------------------------------------------------------
(* Further properties of single steps (SpecSteps) *)

\* C31: _select_currency ends in one of two ways: it returns after the click
\* of one option whose text contains the label, or it raises without a click,
\* no item selector having a displayed element; it never returns without a
\* click.
C31_ClickedOrRaised ==
    st_pc = "select" =>
        LET lists == <<st_in.found[1], st_in.found[2], st_in.found[3],
                       st_in.all>>
            k == st_out.clicked[1]
            j == st_out.clicked[2]
        IN  \/ /\ ~st_out.raised
               /\ k \in 1..4
               /\ j \in 1..Len(lists[k])
               /\ lists[k][j].text
               /\ lists[k][j].state # "stale"
            \/ /\ st_out.raised
               /\ st_out.clicked = <<0, 0>>
               /\ st_in.button = "ok" =>
                     /\ \A k2 \in 1..3 : \A j2 \in 1..Len(lists[k2]) :
                           lists[k2][j2].state # "shown"
                     /\ st_in.reopen = "ok" =>
                           \A j2 \in 1..Len(st_in.all) :
                              st_in.all[j2].state = "stale"
                                \/ ~st_in.all[j2].text

\* the dropdown opened twice, its items were listed, none had the label in a
\* readable text, and the call raised
C31_Witness ==
    /\ st_pc = "select"
    /\ st_out.raised
    /\ st_in.button = "ok"
    /\ st_in.reopen = "ok"
    /\ st_in.all # <<>>

\* C32: _get_rate_via_api calls the service exactly when the source currency
\* is a key of currency_codes and the destination is BRL; for any other pair
\* it returns rate 0, the requested date and the unsupported-pair status
\* without a request; it never raises, whatever the service answers.
C32_ApiOnlyForTablePairs ==
    st_pc = "api" =>
        /\ st_out.raised = NoError
        /\ st_out.requested
             <=> (/\ st_in.pair.from_currency
                      \in {"USD", "EUR", "GBP", "JPY", "CAD", "AUD", "CHF"}
                  /\ st_in.pair.to_currency = "BRL")
        /\ ~st_out.requested
             => st_out.result = <<0, TargetDate, API_INDISPONIVEL>>
        /\ st_out.result[1] >= 0

\* a pair of a table currency against another destination than BRL was
\* answered without a request
C32_Witness ==
    /\ st_pc = "api"
    /\ st_in.pair = CurrencyPair("EUR", "USD")
    /\ ~st_out.requested
    /\ st_out.result[1] = 0

\* C33: the first call each in-browser strategy makes on the session is
\* driver.get of the converter, so what the strategy returns or raises is the
\* same whatever page the session showed before.
C33_StrategyStartsWithNavigation ==
    st_pc = "strategy" =>
        /\ Head(SessionActions(st_in.key)) = "get"
        /\ \A left \in AdvPages :
              StrategyInSession(st_in.key, st_in.pair, left, st_in.drv,
                                st_in.env).result = st_out.result
        /\ \A left \in AdvPages :
              StrategyInSession(st_in.key, st_in.pair, left, st_in.drv,
                                st_in.env).raised = st_out.raised

\* the session showed a result page with a rate, the page the strategy loaded
\* carries none, and the strategy returned rate 0
C33_Witness ==
    /\ st_pc = "strategy"
    /\ st_in.drv = Held
    /\ st_in.left.nav = NoError
    /\ st_in.left.wait = "ok"
    /\ st_in.left.rate > 0
    /\ st_in.env.page.nav = NoError
    /\ st_in.env.page.wait = "ok"
    /\ st_in.env.page.rate = 0
    /\ st_out.raised = NoError
    /\ st_out.result[1] = 0

\* C35: when read_currency_pairs fails on the format of the file of
\* input_dir (a single column), run() writes the sample over it and reads the
\* pairs again: no error leaves the inner try and the pairs are those of the
\* sample.
C35_RunRecoversFromBadFormat ==
    (/\ st_pc = "run"
     /\ ~st_in.root
     /\ st_in.exists
     /\ st_in.readable
     /\ st_in.columns = "one"
     /\ st_in.create = "ok")
        => /\ st_out.recreated
           /\ ~st_out.raised
           /\ st_out.pairs = [i \in 1..Len(SampleRows) |->
                                 CurrencyPair(SampleRows[i][1],
                                              SampleRows[i][2])]

\* C39: once 'Data cotação utilizada: DD/MM/YYYY' matched in the result
\* text, the date _extract_result returns is the date of that match, whatever
\* the generic date selectors find.
C39_SpecificDateIsReturned ==
    (/\ st_pc = "result"
     /\ st_in.page.readable
     /\ st_in.page.dateUsed # NoMatch)
        => st_out[2] = st_in.page.dateUsed

-----------------------------------------------------------------------------
(* Properties of the form-request spider (SpecScrapy) *)

\* the pairs of the form requests issued so far, in order
SubmittedPairs ==
    LET forms == SelectSeq(sc_requests,
                           LAMBDA r : r.callback = "parse_result")
    IN  [i \in 1..Len(forms) |-> forms[i].formdata]

\* C40: current_pair_index only increases and stays within
\* 0..len(currency_pairs); the pairs the index has passed were each submitted
\* in one form request, in input order; no request follows the form request
\* of the last pair.
C40_EachPairSubmittedOnceInOrder ==
    /\ [](/\ current_pair_index \in 0..Len(sc_currency_pairs)
          /\ SubmittedPairs = SubSeq(sc_currency_pairs, 1, current_pair_index)
          /\ \A i \in 1..Len(sc_requests) :
                (/\ sc_requests[i].callback = "parse_result"
                 /\ Len(SelectSeq(SubSeq(sc_requests, 1, i),
                                  LAMBDA r : r.callback = "parse_result"))
                      = Len(sc_currency_pairs))
                    => i = Len(sc_requests))
    /\ [][current_pair_index' >= current_pair_index]_vars

====
